---- MODULE Spec2Model ----
(***************************************************************************)
(* Model of the terminal presentation and input core of DeepAgents:        *)
(* TerminalUI (deepagents_cli/terminal_ui.py) driven by the chat loop of   *)
(* deepagents_cli/claude_ui.py.                                            *)
(*                                                                         *)
(* Strings are sequences of character codes (ord), so that prefixes,       *)
(* lower-casing, word splitting and lengths are computed as the code       *)
(* computes them.  The terminal is the cursor, the saved cursor, the       *)
(* cursor visibility and the tty mode; every print of the program is one   *)
(* terminal operation, and the two threads (the main thread and the        *)
(* status update thread) interleave at the granularity of single prints.   *)
(***************************************************************************)
EXTENDS Integers, Sequences, FiniteSets, TLC

\* ------------------------------------------------------------------ bounds

\* Terminal size sampled by TerminalUI.__init__ (os.get_terminal_size()).
Width == 40
Height == 6
\* Number of input bursts the keyboard delivers in one run: of the main
\* thread alone (SpecMain), and of the two threads together (Spec).
MaxKeys == 2
MaxBursts == 1

\* ------------------------------------------------------- program constants

\* add_conversation_line: "if len(self.conversation_lines) > 1000"
RetentionCap == 1000
\* add_conversation_line: "self.conversation_lines[-500:]"
RetentionKeep == 500
\* draw_autocomplete / clear_autocomplete / update_autocomplete: 10 options
MaxOptions == 10
\* len("You: "), the prompt of draw_input_area
PromptWidth == 5

\* --------------------------------------------------------- string helpers

Min(a, b) == IF a < b THEN a ELSE b
Max(a, b) == IF a > b THEN a ELSE b

\* s[:n] for n >= 0
Take(s, n) == SubSeq(s, 1, Min(n, Len(s)))
\* s[n:] for n >= 0
Drop(s, n) == SubSeq(s, n + 1, Len(s))
\* s[-n:] for n > 0
LastN(s, n) == SubSeq(s, Max(1, Len(s) - n + 1), Len(s))

\* str.startswith
StartsWith(s, p) == Len(p) <= Len(s) /\ SubSeq(s, 1, Len(p)) = p

\* str.lower on one character (the input loop only stores bytes 32..126)
Lower(c) == IF c >= 65 /\ c <= 90 THEN c + 32 ELSE c
\* A lower() that keeps the case of its argument.
LowerStrKeepingCase(s) == s
\* str.lower
LowerStr(s) == [i \in 1..Len(s) |-> Lower(s[i])]

\* the characters str.split() and str.strip() treat as whitespace
IsSpace(c) == c \in {9, 10, 11, 12, 13, 32}

\* str.strip() is empty exactly when every character is whitespace
StripIsEmpty(s) == \A i \in 1..Len(s) : IsSpace(s[i])

\* str.split(): the maximal runs of non-whitespace characters, in order
Split(s) ==
    LET starts == {i \in 1..Len(s) : ~IsSpace(s[i]) /\ (i = 1 \/ IsSpace(s[i - 1]))}
        StartOf(k) == CHOOSE i \in starts : Cardinality({j \in starts : j < i}) = k - 1
        EndOf(i) == CHOOSE e \in i..Len(s) :
                        /\ \A j \in i..e : ~IsSpace(s[j])
                        /\ (e = Len(s) \/ IsSpace(s[e + 1]))
    IN  [k \in 1..Cardinality(starts) |-> SubSeq(s, StartOf(k), EndOf(StartOf(k)))]

\* Columns a printed string advances the cursor by: every character except
\* those of the SGR colour sequences ESC [ ... m the program embeds (from an
\* ESC up to the first final byte after it).
IsFinal(c) == c >= 64 /\ c <= 126 /\ c # 91
Columns(s) ==
    Cardinality({i \in 1..Len(s) :
                   /\ s[i] # 27
                   /\ ~\E j \in 1..(i - 1) :
                          /\ s[j] = 27
                          /\ \A k \in (j + 1)..(i - 1) : ~IsFinal(s[k])})

\* ------------------------------------------------------ command registry

\* autocomplete.COMMANDS, in declaration order
COMMANDS ==
  << [cmd |-> <<115, 116, 97, 116, 117, 115>>, desc |-> "Show comprehensive status line with time, model, git info"],
     [cmd |-> <<114, 101, 97, 100>>, desc |-> "Read file with syntax highlighting"],
     [cmd |-> <<119, 114, 105, 116, 101>>, desc |-> "Write content to file with backup"],
     [cmd |-> <<101, 100, 105, 116>>, desc |-> "Search and replace in file"],
     [cmd |-> <<108, 115>>, desc |-> "List files with rich formatting"],
     [cmd |-> <<103, 114, 101, 112>>, desc |-> "Search files with context"],
     [cmd |-> <<98, 97, 115, 104>>, desc |-> "Execute shell command safely"],
     [cmd |-> <<116, 97, 115, 107>>, desc |-> "Task management (add/done/list/clear)"],
     [cmd |-> <<115, 101, 97, 114, 99, 104>>, desc |-> "Web search (like Claude Code)"],
     [cmd |-> <<102, 101, 116, 99, 104>>, desc |-> "Fetch web content"],
     [cmd |-> <<109, 101, 109, 111, 114, 121>>, desc |-> "Memory management (history/projects/note/forget)"],
     [cmd |-> <<97, 103, 101, 110, 116>>, desc |-> "Specialized agent operations (list/help/stats/auto/direct)"],
     [cmd |-> <<119, 111, 114, 107, 102, 108, 111, 119>>, desc |-> "Smart workflow management (list/help/history/suggest/execute)"],
     [cmd |-> <<109, 111, 100, 101, 108>>, desc |-> "Model management (list/set/benchmark/costs/features)"] >>

\* "command_part in COMMANDS" (dict membership, case-sensitive)
InCommands(s) == \E i \in 1..Len(COMMANDS) : COMMANDS[i].cmd = s

\* ------------------------------------------------------------------ texts

\* A string get_status_line() returns: "TIME .. | HOST .. | MODEL .. | FOLDER .. | PATH .."
SampleStatus ==
    <<84, 73, 77, 69, 32, 49, 50, 58, 48, 48, 58, 48, 48, 32, 124, 32, 72, 79, 83, 84, 32, 104,
      32, 124, 32, 77, 79, 68, 69, 76, 32, 109, 32, 124, 32, 70, 79, 76, 68, 69, 82, 32, 119,
      32, 124, 32, 80, 65, 84, 72, 32, 47, 119>>
\* start(): "DeepAgents CLI - type :help for commands." (with its emoji and dash)
Banner1 ==
    <<129504, 32, 68, 101, 101, 112, 65, 103, 101, 110, 116, 115, 32, 67, 76, 73, 32, 8212, 32,
      116, 121, 112, 101, 32, 58, 104, 101, 108, 112, 32, 102, 111, 114, 32, 99, 111, 109, 109,
      97, 110, 100, 115, 46>>
\* start(): "(Your text is yellow, DeepAgents responses are white)"
Banner2 ==
    <<40, 89, 111, 117, 114, 32, 116, 101, 120, 116, 32, 105, 115, 32, 121, 101, 108, 108, 111,
      119, 44, 32, 68, 101, 101, 112, 65, 103, 101, 110, 116, 115, 32, 114, 101, 115, 112, 111,
      110, 115, 101, 115, 32, 97, 114, 101, 32, 119, 104, 105, 116, 101, 41>>
\* main(): "Sandbox root: {cfg.FS_ROOT}" for the root /w
InfoRoot ==
    <<83, 97, 110, 100, 98, 111, 120, 32, 114, 111, 111, 116, 58, 32, 47, 119>>
\* main(): "Write enabled: {cfg.ALLOW_FS_WRITE}"
InfoWrite ==
    <<87, 114, 105, 116, 101, 32, 101, 110, 97, 98, 108, 101, 100, 58, 32, 70, 97, 108, 115,
      101>>
\* main(): "Auto-apply: {cfg.ALLOW_AUTO_APPLY}"
InfoAuto ==
    <<65, 117, 116, 111, 45, 97, 112, 112, 108, 121, 58, 32, 70, 97, 108, 115, 101>>
\* main(): help_text of the :help command
HelpText ==
    <<67, 111, 109, 109, 97, 110, 100, 115, 58, 10, 58, 104, 101, 108, 112, 32, 45, 32, 83, 104,
      111, 119, 32, 116, 104, 105, 115, 32, 104, 101, 108, 112, 10, 58, 113, 117, 105, 116, 47,
      58, 101, 120, 105, 116, 32, 45, 32, 81, 117, 105, 116, 10, 47, 115, 116, 97, 116, 117,
      115, 32, 45, 32, 83, 104, 111, 119, 32, 115, 116, 97, 116, 117, 115, 32, 108, 105, 110,
      101, 10, 47, 91, 99, 111, 109, 109, 97, 110, 100, 93, 32, 45, 32, 85, 115, 101, 32, 115,
      108, 97, 115, 104, 32, 99, 111, 109, 109, 97, 110, 100, 115, 10, 74, 117, 115, 116, 32,
      116, 121, 112, 101, 32, 116, 111, 32, 99, 104, 97, 116, 33>>
\* main(): "Status: "
StatusLabel ==
    <<83, 116, 97, 116, 117, 115, 58, 32>>
\* main(): "Command detected: "
CommandDetected ==
    <<67, 111, 109, 109, 97, 110, 100, 32, 100, 101, 116, 101, 99, 116, 101, 100, 58, 32>>
\* main(): "Full slash command support coming soon..."
ComingSoon ==
    <<70, 117, 108, 108, 32, 115, 108, 97, 115, 104, 32, 99, 111, 109, 109, 97, 110, 100, 32,
      115, 117, 112, 112, 111, 114, 116, 32, 99, 111, 109, 105, 110, 103, 32, 115, 111, 111,
      110, 46, 46, 46>>
\* main(): "(no response)"
NoResponse ==
    <<40, 110, 111, 32, 114, 101, 115, 112, 111, 110, 115, 101, 41>>
\* main(): "Error: "
ErrorLabel ==
    <<69, 114, 114, 111, 114, 58, 32>>
\* ":quit", ":exit", ":help", "/status"
QuitCmd ==
    <<58, 113, 117, 105, 116>>
ExitCmd ==
    <<58, 101, 120, 105, 116>>
HelpCmd ==
    <<58, 104, 101, 108, 112>>
StatusCmd ==
    <<47, 115, 116, 97, 116, 117, 115>>
\* A non-blank text the backend returns, and the message of an exception it raises.
AgentText ==
    <<111, 107>>
AgentError ==
    <<98, 111, 111, 109>>

\* ---------------------------------------------------- conversation buffer

\* "\033[33mYou:\033[0m" and "\033[37mDeepAgents:\033[0m"
YouPrefix == <<27, 91, 51, 51, 109, 89, 111, 117, 58, 27, 91, 48, 109>>
DeepAgentsPrefix ==
    <<27, 91, 51, 55, 109, 68, 101, 101, 112, 65, 103, 101, 110, 116, 115, 58, 27, 91, 48, 109>>

\* The sender prefix add_conversation_line puts before the text.
Formatted(text, sender) ==
    IF sender = "user" THEN YouPrefix \o <<32>> \o text
    ELSE IF sender = "assistant" THEN DeepAgentsPrefix \o <<32>> \o text
    ELSE text

\* A word packing that loses the line under construction when a word does
\* not fit.
RECURSIVE WrapWordsDropping(_, _, _)
WrapWordsDropping(words, current_line, max_width) ==
    IF words = <<>>
    THEN (IF current_line # <<>> THEN <<current_line>> ELSE <<>>)
    ELSE LET word == Head(words) IN
         IF Len(current_line) + 1 + Len(word) <= max_width
         THEN WrapWordsDropping(Tail(words),
                        (IF current_line # <<>> THEN current_line \o <<32>> ELSE <<>>) \o word,
                        max_width)
         ELSE WrapWordsDropping(Tail(words), word, max_width)
\* The greedy word packing of add_conversation_line: the lines appended for
\* the remaining words, current_line being the line under construction.
RECURSIVE WrapWords(_, _, _)
WrapWords(words, current_line, max_width) ==
    IF words = <<>>
    THEN (IF current_line # <<>> THEN <<current_line>> ELSE <<>>)
    ELSE LET word == Head(words) IN
         IF Len(current_line) + 1 + Len(word) <= max_width
         THEN WrapWords(Tail(words),
                        (IF current_line # <<>> THEN current_line \o <<32>> ELSE <<>>) \o word,
                        max_width)
         ELSE (IF current_line # <<>> THEN <<current_line>> ELSE <<>>)
              \o WrapWords(Tail(words), word, max_width)

\* The lines one call of add_conversation_line appends.
FormatLines(text, sender, w) ==
    LET formatted == Formatted(text, sender)
        max_width == w - 2
    IN  IF Len(formatted) > max_width
        THEN WrapWords(Split(formatted), <<>>, max_width)
        ELSE <<formatted>>

\* A buffer that is never cut.
TrimLinesNever(lines) == lines
\* "Keep conversation manageable"
TrimLines(lines) ==
    IF Len(lines) > RetentionCap THEN LastN(lines, RetentionKeep) ELSE lines

\* TerminalUI.add_conversation_line: the new value of conversation_lines.
add_conversation_line(lines, text, sender, w) ==
    TrimLines(lines \o FormatLines(text, sender, w))

\* The sender a stored line shows: the buffer keeps rendered strings, so the
\* sender of a line is the prefix it carries.
SenderOf(line) ==
    IF StartsWith(line, YouPrefix) THEN "user"
    ELSE IF StartsWith(line, DeepAgentsPrefix) THEN "assistant"
    ELSE "system"

\* --------------------------------------------------- terminal operations

\* One print of the program, as the terminal sees it:
\*   move  ESC [ a ; b H        el    ESC [ K (erase to end of line)
\*   text  a columns of text    save  ESC [ s      restore  ESC [ u
\*   hide  ESC [ ? 25 l         show  ESC [ ? 25 h
\*   cls   ESC [ 2 J ESC [ H    line  a columns of text and a newline
Op(k, a, b) == [k |-> k, a |-> a, b |-> b]

move_cursor(row, col) == <<Op("move", row, col)>>
save_cursor == <<Op("save", 0, 0)>>
restore_cursor == <<Op("restore", 0, 0)>>
hide_cursor == <<Op("hide", 0, 0)>>
show_cursor == <<Op("show", 0, 0)>>
clear_screen == <<Op("cls", 0, 0)>>
clear_line(row) == move_cursor(row, 1) \o <<Op("el", 0, 0)>>

\* clear_line over range(first, last + 1)
RECURSIVE ClearRows(_, _)
ClearRows(first, last) ==
    IF first > last THEN <<>> ELSE clear_line(first) \o ClearRows(first + 1, last)

\* The cursor after the terminal has processed op.  Text stops at the right
\* margin; a newline moves to the next row (and to column 1 only when the tty
\* post-processes output, i.e. is not in raw mode), scrolling at the bottom.
CursorAfter(op, cur, sav, raw, w, h) ==
    CASE op.k = "move" -> <<op.a, op.b>>
      [] op.k = "text" -> <<cur[1], Min(cur[2] + op.a, w)>>
      [] op.k = "line" -> <<Min(cur[1] + 1, h), IF raw THEN Min(cur[2] + op.a, w) ELSE 1>>
      [] op.k = "restore" -> sav
      [] op.k = "cls" -> <<1, 1>>
      [] OTHER -> cur

SavedAfter(op, cur, sav) == IF op.k = "save" THEN cur ELSE sav

VisibleAfter(op, vis) ==
    CASE op.k = "hide" -> FALSE
      [] op.k = "show" -> TRUE
      [] OTHER -> vis

\* The operations that put or erase characters on the row the cursor is on.
IsContent(op) == op.k \in {"text", "el", "line"}

\* --------------------------------------------------------------- painters

\* TerminalUI.draw_status_bar for a status string of length n: the text is
\* cut to w - 4 columns, padded to w - 2 and framed by two spaces.
draw_status_bar(n, w, h) ==
    LET status_row == h
        shown == IF n > w - 4 THEN Max(0, Min(n, w - 7)) + 3 ELSE n
    IN  clear_line(status_row)
        \o move_cursor(status_row, 1)
        \o <<Op("text", 1 + Max(shown, w - 2) + 1, 0)>>

\* TerminalUI.draw_input_area
draw_input_area(line, pos, w, h) ==
    LET input_row == h - 2
        available_width == w - PromptWidth - 2
        start_pos == Max(0, pos - available_width + 10)
        shown == IF Len(line) > available_width
                 THEN Max(0, Min(Len(line), start_pos + available_width) - Min(Len(line), start_pos))
                 ELSE Len(line)
        cursor_col == PromptWidth + Min(pos, available_width) + 1
    IN  clear_line(input_row)
        \o move_cursor(input_row, 1)
        \o <<Op("text", PromptWidth + shown, 0)>>
        \o move_cursor(input_row, cursor_col)

\* One row of the autocomplete menu: " /cmd            " and the description.
OptionColumns(opt, w) ==
    LET cmd_len == 1 + Len(opt.cmd)
        cmd_shown == IF cmd_len > 15 THEN 15 ELSE cmd_len
        available_desc_width == w - 18
        desc_shown == IF Len(opt.desc) > available_desc_width
                      THEN Max(0, Min(Len(opt.desc), available_desc_width - 3)) + 3
                      ELSE Len(opt.desc)
    IN  1 + Max(cmd_shown, 15) + 1 + 1 + desc_shown

RECURSIVE DrawOptions(_, _, _, _, _)
DrawOptions(options, i, start_row, w, h) ==
    IF i > Min(Len(options), MaxOptions) \/ start_row + (i - 1) >= h - 2 THEN <<>>
    ELSE LET row == start_row + (i - 1) IN
         clear_line(row) \o move_cursor(row, 1)
         \o <<Op("text", OptionColumns(options[i], w), 0)>>
         \o DrawOptions(options, i + 1, start_row, w, h)

\* A menu that is not stopped at the input row.
draw_autocomplete_overlapping(visible, options, w, h) ==
    IF ~visible \/ options = <<>> THEN <<>>
    ELSE DrawOptions(options, 1, Max(1, h - 3 - Len(options)), w, h + 3)
\* TerminalUI.draw_autocomplete
draw_autocomplete(visible, options, w, h) ==
    IF ~visible \/ options = <<>> THEN <<>>
    ELSE DrawOptions(options, 1, Max(1, h - 3 - Len(options)), w, h)

\* A window taken from the head of the buffer.
DisplayLinesFromHead(lines, h) == Take(lines, Max(0, (h - 4) - 2))
\* display_lines of draw_conversation: the slice
\* lines[-(conversation_height - 2):] when the buffer is longer than that
\* (a negative index when conversation_height - 2 > 0, a start index
\* otherwise), the whole buffer when it is not.
DisplayLines(lines, h) ==
    LET k == (h - 4) - 2 IN
    IF Len(lines) > k
    THEN (IF k > 0 THEN LastN(lines, k) ELSE Drop(lines, Min(0 - k, Len(lines))))
    ELSE lines

RECURSIVE DrawLines(_, _, _, _)
DrawLines(display_lines, i, w, h) ==
    IF i > Len(display_lines) \/ (i - 1) >= (h - 4) - 2 THEN <<>>
    ELSE LET line == display_lines[i]
             shown == IF Len(line) > w - 2
                      THEN Take(line, Max(0, w - 5)) \o <<46, 46, 46>>
                      ELSE line
         IN  move_cursor(i, 1) \o <<Op("text", Columns(shown), 0)>>
             \o DrawLines(display_lines, i + 1, w, h)

\* TerminalUI.draw_conversation
draw_conversation(lines, w, h) ==
    ClearRows(1, h - 4) \o DrawLines(DisplayLines(lines, h), 1, w, h)

\* TerminalUI.refresh_display (its final sys.stdout.flush() prints nothing)
refresh_display(lines, visible, options, line, pos, w, h) ==
    draw_conversation(lines, w, h)
    \o draw_autocomplete(visible, options, w, h)
    \o draw_input_area(line, pos, w, h)
    \o draw_status_bar(Len(SampleStatus), w, h)

\* One tick of update_loop in start_status_updates
StatusTickOps(w, h) == save_cursor \o draw_status_bar(Len(SampleStatus), w, h) \o restore_cursor

\* TerminalUI.stop: show_cursor, clear_screen, print("Goodbye.")
StopOpsNoShow == clear_screen \o <<Op("line", 8, 0)>>
StopOps == show_cursor \o clear_screen \o <<Op("line", 8, 0)>>

\* ------------------------------------------------------------ autocomplete

\* The result of clear_autocomplete: the new fields and the prints made.
clear_autocomplete_keeping_options(visible, options, h) ==
    IF ~visible
    THEN [visible |-> visible, options |-> options, ops |-> <<>>]
    ELSE [visible |-> FALSE, options |-> options,
          ops |-> ClearRows(Max(1, h - 3 - MaxOptions), h - 3)]
clear_autocomplete(visible, options, h) ==
    IF ~visible
    THEN [visible |-> visible, options |-> options, ops |-> <<>>]
    ELSE [visible |-> FALSE, options |-> <<>>,
          ops |-> ClearRows(Max(1, h - 3 - MaxOptions), h - 3)]

\* The commands whose name starts with command_part.lower(), in
\* declaration order.
Matches(command_part) ==
    SelectSeq(COMMANDS, LAMBDA e : StartsWith(e.cmd, LowerStr(command_part)))

\* An update that matches the whole line, with or without its leading '/'.
update_autocomplete_any_line(line, visible, options, h) ==
    LET matches == Matches(line) IN
    IF matches # <<>>
    THEN [visible |-> TRUE, options |-> Take(matches, MaxOptions), ops |-> <<>>]
    ELSE clear_autocomplete(visible, options, h)
\* TerminalUI.update_autocomplete
update_autocomplete(line, visible, options, h) ==
    IF StartsWith(line, <<47>>)
    THEN LET command_part == Tail(line)
             matches == Matches(command_part)
         IN  IF matches # <<>>
                /\ (command_part = <<>> \/ Len(matches) > 1 \/ ~InCommands(command_part))
             THEN [visible |-> TRUE, options |-> Take(matches, MaxOptions), ops |-> <<>>]
             ELSE clear_autocomplete(visible, options, h)
    ELSE clear_autocomplete(visible, options, h)

\* ------------------------------------------------------------ line editing

\* An insertion that appends whatever the cursor offset.
InsertCharAtEnd(line, pos, char) == line \o <<char>>
\* input_line[:cursor_pos] + char + input_line[cursor_pos:]
InsertChar(line, pos, char) == Take(line, pos) \o <<char>> \o Drop(line, pos)

\* A deletion of the character under the cursor.
DeleteAt(line, pos) == Take(line, pos) \o Drop(line, Min(pos + 1, Len(line)))
\* input_line[:cursor_pos-1] + input_line[cursor_pos:]
DeleteBefore(line, pos) == Take(line, pos - 1) \o Drop(line, pos)

\* A Left arrow without its test of the cursor offset.
LeftPosUnguarded(line, pos) == pos - 1
\* Left arrow: "if self.cursor_pos > 0: self.cursor_pos -= 1"
LeftPos(line, pos) == IF pos > 0 THEN pos - 1 ELSE pos

\* Right arrow: "if self.cursor_pos < len(self.input_line): self.cursor_pos += 1"
RightPosUnguarded(line, pos) == pos + 1
RightPos(line, pos) == IF pos < Len(line) THEN pos + 1 ELSE pos

\* -------------------------------------------------- LiveUI (agent/live_ui.py)

\* "Keep conversation manageable": more than LiveCap lines are cut to the
\* last LiveKeep; update_conversation_area shows the last LiveWindow lines.
LiveCap == 100
LiveKeep == 80
LiveWindow == 50

\* "[yellow]You:[/yellow] " and "[white]DeepAgents:[/white] "
LiveYouPrefix == <<91, 121, 101, 108, 108, 111, 119, 93, 89, 111, 117, 58, 91, 47, 121, 101, 108, 108, 111, 119, 93, 32>>
LiveDeepAgentsPrefix == <<91, 119, 104, 105, 116, 101, 93, 68, 101, 101, 112, 65, 103, 101, 110, 116, 115, 58, 91, 47, 119, 104, 105, 116, 101, 93, 32>>

\* rich.markup.escape: a backslash goes before every "[" that opens a tag (a
\* "[" followed by a-z, "#", "/" or "@" and closed by a "]" with no "["
\* between them).
OpensTag(s, i) ==
    /\ s[i] = 91
    /\ i < Len(s)
    /\ (s[i + 1] \in 97..122 \/ s[i + 1] \in {35, 47, 64})
    /\ \E j \in (i + 1)..Len(s) :
          /\ s[j] = 93
          /\ \A k \in (i + 1)..(j - 1) : s[k] # 91
RECURSIVE EscapeFrom(_, _)
EscapeFrom(s, i) ==
    IF i > Len(s) THEN <<>>
    ELSE (IF OpensTag(s, i) THEN <<92, s[i]>> ELSE <<s[i]>>) \o EscapeFrom(s, i + 1)
escape(s) == EscapeFrom(s, 1)

\* The sender prefix and the escaping of LiveUI.add_message.
LiveFormatted(message, sender) ==
    IF sender = "user" THEN LiveYouPrefix \o escape(message)
    ELSE IF sender \in {"assistant", "deepagents"}
         THEN LiveDeepAgentsPrefix \o escape(message)
         ELSE escape(message)

\* add_message cutting a full buffer to its first LiveKeep lines.
add_message_keeping_head(lines, message, sender) ==
    LET all == Append(lines, LiveFormatted(message, sender)) IN
    IF Len(all) > LiveCap THEN Take(all, LiveKeep) ELSE all
\* LiveUI.add_message: the new value of conversation_lines.
add_message(lines, message, sender) ==
    LET all == Append(lines, LiveFormatted(message, sender)) IN
    IF Len(all) > LiveCap THEN LastN(all, LiveKeep) ELSE all

\* display_lines of LiveUI.update_conversation_area
LiveDisplayLines(lines) ==
    IF Len(lines) > LiveWindow THEN LastN(lines, LiveWindow) ELSE lines

\* The lines draw_conversation prints: its loop over display_lines stops at
\* index conversation_height - 2.
PrintedLines(lines, h) ==
    LET display_lines == DisplayLines(lines, h) IN
    SubSeq(display_lines, 1, Min(Len(display_lines), Max(0, (h - 4) - 2)))

\* str(n) for n >= 0
RECURSIVE Digits(_)
Digits(n) == IF n < 10 THEN <<48 + n>> ELSE Digits(n \div 10) \o <<48 + (n % 10)>>

\* The buffer after the messages "1", "2", ..., str(n) were appended as system
\* lines (no prefix, nothing to wrap, nothing to escape).
Numbered(n) == [i \in 1..n |-> Digits(i)]

\* ------------------------------------------- StatusLine (agent/status_line.py)

\* The branch cache is used for lookups less than GitTtl seconds old.
GitTtl == 5

\* Python's None where a string is expected: a sequence no string equals.
None == <<0>>

\* "x in s" on strings: x is a substring of s
In(x, s) == \E i \in 1..(Len(s) - Len(x) + 1) : SubSeq(s, i, i + Len(x) - 1) = x

\* str.strip()
Strip(s) ==
    LET solid == {i \in 1..Len(s) : ~IsSpace(s[i])} IN
    IF solid = {} THEN <<>>
    ELSE SubSeq(s, CHOOSE i \in solid : \A j \in solid : i <= j,
                   CHOOSE i \in solid : \A j \in solid : i >= j)

\* sep.join(components)
RECURSIVE Join(_, _)
Join(components, sep) ==
    IF components = <<>> THEN <<>>
    ELSE IF Len(components) = 1 THEN Head(components)
    ELSE Head(components) \o sep \o Join(Tail(components), sep)

\* The fixed fallbacks and the field labels.
Unknown == <<117, 110, 107, 110, 111, 119, 110>>
DefaultModel == <<83, 111, 110, 110, 101, 116, 32, 52>>
TimeLabel == <<84, 73, 77, 69, 32>>
HostLabel == <<72, 79, 83, 84, 32>>
ModelLabel == <<77, 79, 68, 69, 76, 32>>
FolderLabel == <<70, 79, 76, 68, 69, 82, 32>>
BranchLabel == <<66, 82, 65, 78, 67, 72, 32>>
PathLabel == <<80, 65, 84, 72, 32>>
Separator == <<32, 124, 32>>

\* The surroundings: what socket.gethostname() and get_last_selection()
\* answer, the working directories, what "git branch --show-current" prints.
HostName == <<112, 99>>
Selections == { <<99, 108, 97, 117, 100, 101, 45, 115, 111, 110, 110, 101, 116, 45, 52>>, <<71, 80, 84, 45, 53>>, <<40, 110, 111, 110, 101, 41>> }
Paths == { <<47, 119>>, <<47, 114, 47, 112>> }
MainBranchOut == <<109, 97, 105, 110, 10>>
DevBranchOut == <<100, 101, 118, 10>>
\* git's answers: on a branch, a detached HEAD (nothing printed), not a
\* repository (rev-parse fails), git missing or timing out at the first
\* command, a failure at the second command
GitAnswers == {"main", "dev", "detached", "norepo", "error", "late_error"}
Failures == {"clock", "hostname", "import", "selection", "cwd"}

\* The outcome of a call: a returned value, or an exception.
Returned(v) == [raised |-> FALSE, value |-> v]
Raised == [raised |-> TRUE, value |-> <<>>]

\* two decimal digits
Digits2(n) == <<48 + (n \div 10), 48 + (n % 10)>>

\* datetime.now().strftime("%I:%M:%S %p"), t being the seconds since midnight
strftime(t) ==
    LET hour == (t \div 3600) % 24
        hour12 == IF hour % 12 = 0 THEN 12 ELSE hour % 12
    IN  Digits2(hour12) \o <<58>> \o Digits2((t \div 60) % 60) \o <<58>>
        \o Digits2(t % 60) \o <<32>> \o (IF hour < 12 THEN <<65, 77>> ELSE <<80, 77>>)

get_current_time(e, t) ==
    IF "clock" \in e.failing THEN Raised ELSE Returned(strftime(t))

get_hostname(e) ==
    IF "hostname" \in e.failing THEN Returned(Unknown) ELSE Returned(HostName)

\* the import of get_last_selection stands before the try
get_current_model(e) ==
    IF "import" \in e.failing THEN Raised
    ELSE IF "selection" \in e.failing THEN Returned(DefaultModel)
    ELSE LET model_info == LowerStr(e.selection) IN
         Returned(
           IF In(<<99, 108, 97, 117, 100, 101>>, model_info)
           THEN (IF In(<<115, 111, 110, 110, 101, 116>>, model_info) THEN <<83, 111, 110, 110, 101, 116, 32, 52>>
                 ELSE IF In(<<104, 97, 105, 107, 117>>, model_info) THEN <<72, 97, 105, 107, 117, 32, 51, 46, 53>>
                 ELSE <<67, 108, 97, 117, 100, 101>>)
           ELSE IF In(<<103, 112, 116>>, model_info)
           THEN (IF In(<<103, 112, 116, 45, 53>>, model_info) THEN <<71, 80, 84, 45, 53>>
                 ELSE IF In(<<103, 112, 116, 45, 52>>, model_info) THEN <<71, 80, 84, 45, 52>>
                 ELSE <<71, 80, 84>>)
           ELSE IF In(<<103, 101, 109, 105, 110, 105>>, model_info) THEN <<71, 101, 109, 105, 110, 105>>
           ELSE <<65, 73, 32, 77, 111, 100, 101, 108>>)

\* pathlib's name of an absolute path: what follows the last "/"
PathName(p) ==
    LET slashes == {i \in 1..Len(p) : p[i] = 47}
        last == CHOOSE i \in slashes : \A j \in slashes : i >= j
    IN  IF slashes = {} THEN p ELSE SubSeq(p, last + 1, Len(p))

get_current_folder(e, dir) ==
    IF "cwd" \in e.failing THEN Returned(Unknown) ELSE Returned(PathName(dir))

get_full_path(e, dir) ==
    IF "cwd" \in e.failing THEN Returned(Unknown) ELSE Returned(dir)

\* The branch cache: the three fields of StatusLine.
Cache(check, branch, path) ==
    [last_git_check |-> check, cached_git_branch |-> branch, cached_git_path |-> path]

\* What "git branch --show-current" prints (nothing on a detached HEAD).
BranchStdout(answer) ==
    IF answer = "main" THEN MainBranchOut
    ELSE IF answer = "dev" THEN DevBranchOut
    ELSE <<>>

\* The subprocess.run calls a fresh check makes.
GitRuns(answer) == IF answer \in {"norepo", "error"} THEN 1 ELSE 2

\* A branch lookup that pays no attention to force_refresh.
get_git_branch_unforced(force_refresh, e, current_time, dir, c) ==
    IF "cwd" \in e.failing
    THEN [raised |-> TRUE, value |-> None, cache |-> c, runs |-> 0]
    ELSE IF /\ current_time - c.last_git_check < GitTtl
            /\ c.cached_git_path = dir
            /\ c.cached_git_branch # None
    THEN [raised |-> FALSE, value |-> c.cached_git_branch, cache |-> c, runs |-> 0]
    ELSE LET branch == Strip(BranchStdout(e.git)) IN
         IF e.git \in {"main", "dev", "detached"} /\ branch # <<>>
         THEN [raised |-> FALSE, value |-> branch,
               cache |-> Cache(current_time, branch, dir), runs |-> GitRuns(e.git)]
         ELSE [raised |-> FALSE, value |-> None,
               cache |-> Cache(current_time, None, dir), runs |-> GitRuns(e.git)]
\* StatusLine.get_git_branch: whether it raised, the branch it returned (or
\* None), the cache it leaves and the subprocess.run calls it made.
\* Path.cwd() stands before the try.
get_git_branch(force_refresh, e, current_time, dir, c) ==
    IF "cwd" \in e.failing
    THEN [raised |-> TRUE, value |-> None, cache |-> c, runs |-> 0]
    ELSE IF /\ ~force_refresh
            /\ current_time - c.last_git_check < GitTtl
            /\ c.cached_git_path = dir
            /\ c.cached_git_branch # None
    THEN [raised |-> FALSE, value |-> c.cached_git_branch, cache |-> c, runs |-> 0]
    ELSE LET branch == Strip(BranchStdout(e.git)) IN
         IF e.git \in {"main", "dev", "detached"} /\ branch # <<>>
         THEN [raised |-> FALSE, value |-> branch,
               cache |-> Cache(current_time, branch, dir), runs |-> GitRuns(e.git)]
         ELSE [raised |-> FALSE, value |-> None,
               cache |-> Cache(current_time, None, dir), runs |-> GitRuns(e.git)]

\* The record kept of a call of get_git_branch.
NoLookup == [called |-> FALSE, forced |-> FALSE, raised |-> FALSE, value |-> None, runs |-> 0]
LookupOf(force_refresh, r) ==
    [called |-> TRUE, forced |-> force_refresh, raised |-> r.raised,
     value |-> r.value, runs |-> r.runs]

\* A status line that shows a BRANCH field even outside a repository.
generate_status_line_always_branch(e, t, dir, c) ==
    LET time == get_current_time(e, t)
        host == get_hostname(e)
        model == get_current_model(e)
        folder == get_current_folder(e, dir)
        git == get_git_branch(FALSE, e, t, dir, c)
        path == get_full_path(e, dir)
        components ==
            << TimeLabel \o time.value, HostLabel \o host.value,
               ModelLabel \o model.value, FolderLabel \o folder.value,
               BranchLabel \o (IF git.value # None THEN git.value ELSE Unknown),
               PathLabel \o path.value >>
    IN  IF time.raised \/ model.raised
        THEN [raised |-> TRUE, value |-> <<>>, cache |-> c, looked |-> FALSE, git |-> git]
        ELSE IF git.raised
        THEN [raised |-> TRUE, value |-> <<>>, cache |-> git.cache, looked |-> TRUE, git |-> git]
        ELSE [raised |-> FALSE, value |-> Join(components, Separator),
              cache |-> git.cache, looked |-> TRUE, git |-> git]
\* StatusLine.generate_status_line: whether it raised, the string it
\* returned, the cache it leaves and the branch lookup it made (none when an
\* earlier field raised).
generate_status_line(e, t, dir, c) ==
    LET time == get_current_time(e, t)
        host == get_hostname(e)
        model == get_current_model(e)
        folder == get_current_folder(e, dir)
        git == get_git_branch(FALSE, e, t, dir, c)
        path == get_full_path(e, dir)
        components ==
            << TimeLabel \o time.value, HostLabel \o host.value,
               ModelLabel \o model.value, FolderLabel \o folder.value >>
            \o (IF git.value # None /\ git.value # <<>>
                THEN << BranchLabel \o git.value >> ELSE <<>>)
            \o << PathLabel \o path.value >>
    IN  IF time.raised \/ model.raised
        THEN [raised |-> TRUE, value |-> <<>>, cache |-> c, looked |-> FALSE, git |-> git]
        ELSE IF git.raised
        THEN [raised |-> TRUE, value |-> <<>>, cache |-> git.cache, looked |-> TRUE, git |-> git]
        ELSE [raised |-> FALSE, value |-> Join(components, Separator),
              cache |-> git.cache, looked |-> TRUE, git |-> git]

\* The record kept of a call of generate_status_line.
NoStatus ==
    [called |-> FALSE, raised |-> FALSE, value |-> <<>>, at |-> 0, dir |-> None,
     branch |-> None]

\* ------------------------------- CommandAutocomplete (agent/autocomplete.py)

\* autocomplete.SUBCOMMANDS, in declaration order
SUBCOMMANDS ==
  << [cmd |-> <<116, 97, 115, 107>>,
      subs |-> <<
          [cmd |-> <<97, 100, 100>>, desc |-> "Add task to current list"],
          [cmd |-> <<100, 111, 110, 101>>, desc |-> "Mark task as completed"],
          [cmd |-> <<108, 105, 115, 116>>, desc |-> "Show all tasks"],
          [cmd |-> <<99, 108, 101, 97, 114>>, desc |-> "Clear completed tasks"] >>],
     [cmd |-> <<109, 101, 109, 111, 114, 121>>,
      subs |-> <<
          [cmd |-> <<104, 105, 115, 116, 111, 114, 121>>, desc |-> "Show recent conversation history"],
          [cmd |-> <<112, 114, 111, 106, 101, 99, 116, 115>>, desc |-> "List remembered projects"],
          [cmd |-> <<110, 111, 116, 101>>, desc |-> "Add note about current project"],
          [cmd |-> <<102, 111, 114, 103, 101, 116>>, desc |-> "Clear memory for project"] >>],
     [cmd |-> <<97, 103, 101, 110, 116>>,
      subs |-> <<
          [cmd |-> <<108, 105, 115, 116>>, desc |-> "Show all available specialized agents"],
          [cmd |-> <<104, 101, 108, 112>>, desc |-> "Detailed help for agent commands"],
          [cmd |-> <<115, 116, 97, 116, 115>>, desc |-> "Show agent usage statistics"],
          [cmd |-> <<97, 117, 116, 111>>, desc |-> "Auto-route question to best agent"] >>],
     [cmd |-> <<119, 111, 114, 107, 102, 108, 111, 119>>,
      subs |-> <<
          [cmd |-> <<108, 105, 115, 116>>, desc |-> "Show all available smart workflows"],
          [cmd |-> <<104, 101, 108, 112>>, desc |-> "Detailed help for workflow commands"],
          [cmd |-> <<104, 105, 115, 116, 111, 114, 121>>, desc |-> "Show workflow execution history"],
          [cmd |-> <<115, 117, 103, 103, 101, 115, 116>>, desc |-> "Get workflow recommendations"] >>],
     [cmd |-> <<109, 111, 100, 101, 108>>,
      subs |-> <<
          [cmd |-> <<108, 105, 115, 116>>, desc |-> "Show GPT-5 variants and pricing"],
          [cmd |-> <<115, 101, 116>>, desc |-> "Switch to specific model"],
          [cmd |-> <<98, 101, 110, 99, 104, 109, 97, 114, 107>>, desc |-> "Show performance comparisons"],
          [cmd |-> <<99, 111, 115, 116, 115>>, desc |-> "Show cost analysis"],
          [cmd |-> <<102, 101, 97, 116, 117, 114, 101, 115>>, desc |-> "Show feature comparisons"] >>] >>

\* a < b for strings (code point order)
StrLess(a, b) ==
    \E i \in 1..(Min(Len(a), Len(b)) + 1) :
        /\ \A j \in 1..(i - 1) : a[j] = b[j]
        /\ IF i > Len(a) THEN i <= Len(b)
           ELSE i <= Len(b) /\ a[i] < b[i]

\* list.sort(key=lambda x: (not x[0].startswith(partial_lower), x[0])): a
\* stable sort, prefix matches first, then by name
SortKeyLess(x, y, partial_lower) ==
    LET kx == ~StartsWith(x.cmd, partial_lower)
        ky == ~StartsWith(y.cmd, partial_lower)
    IN  \/ ~kx /\ ky
        \/ kx = ky /\ StrLess(x.cmd, y.cmd)
\* A sort that leaves the list in the order it was built.
SortMatchesUnsorted(matches, partial_lower) == matches
SortMatches(matches, partial_lower) ==
    LET Before(i, j) ==
            \/ SortKeyLess(matches[i], matches[j], partial_lower)
            \/ ~SortKeyLess(matches[j], matches[i], partial_lower) /\ i < j
        Rank(i) == 1 + Cardinality({j \in 1..Len(matches) : j # i /\ Before(j, i)})
    IN  [k \in 1..Len(matches) |-> matches[CHOOSE i \in 1..Len(matches) : Rank(i) = k]]

\* The subcommand matches of get_matching_commands.
SubcommandMatches(partial) ==
    LET parts == Split(partial) IN
    IF 32 \notin {partial[i] : i \in 1..Len(partial)} \/ Len(parts) < 2 THEN <<>>
    ELSE LET main_cmd == LowerStr(parts[1])
             sub_partial == LowerStr(parts[2])
             known == {i \in 1..Len(SUBCOMMANDS) : SUBCOMMANDS[i].cmd = main_cmd}
         IN  IF known = {} THEN <<>>
             ELSE LET subs == SUBCOMMANDS[CHOOSE i \in known : TRUE].subs
                      hits == SelectSeq(subs, LAMBDA s : StartsWith(s.cmd, sub_partial))
                  IN  [k \in 1..Len(hits) |->
                          [cmd |-> main_cmd \o <<32>> \o hits[k].cmd, desc |-> hits[k].desc]]

\* A matching that sorts the result for the empty input too.
get_matching_commands_sorted(partial) ==
    LET partial_lower == LowerStr(partial)
        matches == SelectSeq(COMMANDS, LAMBDA x : StartsWith(x.cmd, partial_lower))
    IN  SortMatches(matches \o SubcommandMatches(partial), partial_lower)
\* CommandAutocomplete.get_matching_commands
get_matching_commands(partial) ==
    IF partial = <<>> THEN COMMANDS
    ELSE LET partial_lower == LowerStr(partial)
             matches == SelectSeq(COMMANDS, LAMBDA x : StartsWith(x.cmd, partial_lower))
         IN  SortMatches(matches \o SubcommandMatches(partial), partial_lower)

\* The record kept of a call of get_matching_commands.
NoMatches == [called |-> FALSE, partial |-> <<>>, result |-> <<>>]

\* A suggestion taken from the end of the matches.
get_command_suggestion_last(partial) ==
    LET matches == get_matching_commands(partial) IN
    IF matches # <<>> THEN matches[Len(matches)].cmd ELSE partial
\* CommandAutocomplete.get_command_suggestion (get_command_completion calls it)
get_command_suggestion(partial) ==
    LET matches == get_matching_commands(partial) IN
    IF matches # <<>> THEN matches[1].cmd ELSE partial

\* The record kept of a call of get_command_suggestion.
NoSuggestion == [called |-> FALSE, partial |-> <<>>, result |-> <<>>]

\* The rows show_autocomplete_menu puts in its table.
MenuLimit == 15

\* What a call has printed on the console: nothing, the notice
\* "No matching commands found.", or the panel with its title (whether it
\* names the partial input), its rows "/cmd" and description, and the
\* number N of its closing row "... (N more matches)", 0 when it has none.
NoDisplay == [kind |-> "none", titled |-> FALSE, rows |-> <<>>, more |-> 0]

\* CommandAutocomplete.show_autocomplete_menu (show_command_menu calls it)
show_autocomplete_menu(partial) ==
    LET matches == get_matching_commands(partial)
        shown == Take(matches, MenuLimit)
    IN  IF matches = <<>>
        THEN [kind |-> "notice", titled |-> FALSE, rows |-> <<>>, more |-> 0]
        ELSE [kind |-> "panel", titled |-> partial # <<>>,
              rows |-> [k \in 1..Len(shown) |->
                           [cmd |-> <<47>> \o shown[k].cmd, desc |-> shown[k].desc]],
              more |-> IF Len(matches) > MenuLimit THEN Len(matches) - MenuLimit ELSE 0]

\* "any(command_part.startswith(cmd) for cmd in COMMANDS.keys())"
StartsWithCommand(command_part) ==
    \E i \in 1..Len(COMMANDS) : StartsWith(command_part, COMMANDS[i].cmd)

\* handle_slash_input without its test of the leading '/'.
handle_slash_input_unguarded(user_input) ==
    LET command_part == Drop(user_input, 1)
        matches == get_matching_commands(command_part)
    IN  IF command_part = <<>> \/ ~StartsWithCommand(command_part)
        THEN [returned |-> TRUE, display |-> show_autocomplete_menu(command_part)]
        ELSE IF Len(matches) > 1 /\ ~InCommands(command_part)
        THEN [returned |-> TRUE, display |-> show_autocomplete_menu(command_part)]
        ELSE [returned |-> FALSE, display |-> NoDisplay]
\* autocomplete.handle_slash_input: what it returns and what it has printed
handle_slash_input(user_input) ==
    IF ~StartsWith(user_input, <<47>>)
    THEN [returned |-> FALSE, display |-> NoDisplay]
    ELSE LET command_part == Drop(user_input, 1)
             matches == get_matching_commands(command_part)
         IN  IF command_part = <<>> \/ ~StartsWithCommand(command_part)
             THEN [returned |-> TRUE, display |-> show_autocomplete_menu(command_part)]
             ELSE IF Len(matches) > 1 /\ ~InCommands(command_part)
             THEN [returned |-> TRUE, display |-> show_autocomplete_menu(command_part)]
             ELSE [returned |-> FALSE, display |-> NoDisplay]

\* The record kept of a call of handle_slash_input.
NoSlash == [called |-> FALSE, input |-> <<>>, returned |-> FALSE, display |-> NoDisplay]

\* --------------------------------------------------- inputs of the runs

\* The clock at the start, and how far it advances.
StartTime == 10
MaxTicks == 5
\* The calls of the status line, and the appends to the buffers, in one run.
MaxCalls == 2
MaxAppends == 2
\* The longest partial input given to get_matching_commands.
MaxPartial == 8
\* How much longer than the terminal is wide the input line gets.
MaxOverflow == 3

\* The threads that call get_status_line: the main thread in
\* refresh_display, the status update thread in update_loop.
Threads == {"main", "status"}
\* A thread that is not inside get_git_branch.
NoCall == [pc |-> "idle", current_time |-> 0, current_path |-> <<>>, branch |-> <<>>]
\* The locals of a call that wrote a field of the cache.
Writer(current_time, current_path, branch) ==
    [current_time |-> current_time, current_path |-> current_path, branch |-> branch]

\* The record kept of a call of add_conversation_line, w being self.width.
NoWrap(w) == [called |-> FALSE, text |-> <<>>, sender |-> "system", w |-> w, lines |-> <<>>]

\* Surroundings in which nothing fails.
HomePath == <<47, 119>>
CalmEnv == [failing |-> {}, selection |-> <<40, 110, 111, 110, 101, 41>>, git |-> "main"]

\* ------------------------------------------------------------------- state

VARIABLES
    \* fields of TerminalUI
    input_line, cursor_pos, conversation_lines,
    autocomplete_visible, autocomplete_options, running,
    \* the main thread: where it is, the line start() yielded, the outcome of
    \* agent.invoke, the exception that ended handle_input
    pc, user_input, result, exc,
    \* the prints the main thread has still to make in its current call, and
    \* whether it has made one of them
    mops, mbusy,
    \* the status update thread: where it is, the prints left in its tick,
    \* and whether it has made one of them
    spc, sops, sbusy,
    \* the terminal: cursor <<row, column>>, the cursor saved by ESC [ s,
    \* cursor visibility, and whether the tty is in raw mode
    cursor, saved_cursor, cursor_visible, tty_raw,
    \* the keyboard: bytes typed and not yet read, bursts left, end of input
    pending, keysLeft, eof,
    \* the last burst when it began with ESC, and the line buffer and cursor
    \* offset at the moment it was typed
    escChunk, escSnap,
    \* LiveUI.conversation_lines
    live_lines,
    \* every line ever appended to TerminalUI.conversation_lines and to
    \* LiveUI.conversation_lines, and the last call of add_conversation_line:
    \* its text, sender and width, and the lines it appended
    appended, live_appended, wrapped,
    \* the appends still to come
    appends_left,
    \* the surroundings of the status line: the clock (seconds), the working
    \* directory, and what fails and what git answers
    now, cwd, env,
    \* fields of StatusLine
    last_git_check, cached_git_branch, cached_git_path,
    \* the calls of the status line still to come, the last call of
    \* get_git_branch and the last outcome of generate_status_line
    calls_left, lookup, status_out,
    \* the partial input given to get_matching_commands and what it returned
    partial, matches_out,
    \* the last call of get_command_suggestion and of handle_slash_input
    suggestion_out, slash_out,
    \* the call of get_git_branch each thread is in (where it is and its
    \* locals), and for each field of the cache the locals of the call that
    \* last wrote it
    lookups, cache_writers

bufVars == <<live_lines, appended, live_appended, wrapped, appends_left>>
gitVars == <<now, cwd, env, last_git_check, cached_git_branch, cached_git_path,
             calls_left, lookup, status_out>>
matchVars == <<partial, matches_out, suggestion_out, slash_out>>
\* what the terminal UI loop leaves alone
raceVars == <<lookups, cache_writers>>
otherVars == <<bufVars, gitVars, matchVars, raceVars>>

vars == <<input_line, cursor_pos, conversation_lines, autocomplete_visible,
          autocomplete_options, running, pc, user_input, result, exc, mops, mbusy,
          spc, sops, sbusy, cursor, saved_cursor, cursor_visible, tty_raw,
          pending, keysLeft, eof, escChunk, escSnap, otherVars>>

uiVars == <<input_line, cursor_pos, conversation_lines, autocomplete_visible,
            autocomplete_options, running>>
editVars == <<input_line, cursor_pos, autocomplete_visible, autocomplete_options>>
statusVars == <<spc, sops, sbusy>>
termVars == <<cursor, saved_cursor, cursor_visible>>
keyVars == <<pending, keysLeft, eof, escChunk, escSnap>>

\* The bursts of bytes the keyboard can deliver between two reads.
LeftKey == <<27, 91, 68>>
RightKey == <<27, 91, 67>>
UpKey == <<27, 91, 65>>
DeleteKey == <<27, 91, 51, 126>>
CutShortKey == <<27, 91>>
EscCtrlC == <<27, 3>>
Chunks ==
    { <<47>>, <<109>>, <<13>>, <<127>>, <<8>>, <<9>>, <<3>>, <<4>>, EscCtrlC,
      LeftKey, RightKey, UpKey, DeleteKey, CutShortKey,
      <<97, 98>> \o LeftKey, <<109>> \o LeftKey, <<32, 13>>,
      <<104, 105, 13>>, QuitCmd \o <<13>>, HelpCmd \o <<13>>, StatusCmd \o <<13>> }

\* TerminalUI.__init__, a terminal in its original mode, nothing typed yet,
\* and a keyboard that will deliver n bursts.
InitUI(n) ==
    /\ input_line = <<>>
    /\ cursor_pos = 0
    /\ autocomplete_visible = FALSE
    /\ autocomplete_options = <<>>
    /\ running = FALSE
    /\ pc = "main"
    /\ user_input = <<>>
    /\ result = "none"
    /\ exc = "none"
    /\ mops = <<>>
    /\ mbusy = FALSE
    /\ spc = "idle"
    /\ sops = <<>>
    /\ sbusy = FALSE
    /\ cursor = <<1, 1>>
    /\ saved_cursor = <<1, 1>>
    /\ cursor_visible = TRUE
    /\ tty_raw = FALSE
    /\ pending = <<>>
    /\ keysLeft = n
    /\ eof = FALSE
    /\ escChunk = <<>>
    /\ escSnap = [line |-> <<>>, pos |-> 0]

\* LiveUI.__init__, and no append made or to come.
InitBuffers ==
    /\ live_lines = <<>>
    /\ appended = <<>>
    /\ live_appended = <<>>
    /\ wrapped = NoWrap(Width)
    /\ appends_left = 0

\* StatusLine.__init__, a clock that shows StartTime, and no call made or to
\* come.
InitStatusLine(n) ==
    /\ now = StartTime
    /\ cwd = HomePath
    /\ env = CalmEnv
    /\ last_git_check = 0
    /\ cached_git_branch = None
    /\ cached_git_path = None
    /\ calls_left = n
    /\ lookup = NoLookup
    /\ status_out = NoStatus

\* No partial input typed, get_matching_commands not called.
InitMatching ==
    /\ partial = <<>>
    /\ matches_out = NoMatches
    /\ suggestion_out = NoSuggestion
    /\ slash_out = NoSlash

\* No thread inside get_git_branch, the cache as the constructor wrote it.
InitLookups ==
    /\ lookups = [t \in Threads |-> NoCall]
    /\ cache_writers = [f \in {"branch", "path", "check"} |-> Writer(0, None, None)]

InitWith(n) ==
    /\ InitUI(n)
    /\ conversation_lines = <<>>
    /\ InitBuffers
    /\ InitStatusLine(0)
    /\ InitMatching
    /\ InitLookups

Init == InitWith(MaxBursts)
InitMain == InitWith(MaxKeys)

Refresh(lines, visible, options, line, pos) ==
    refresh_display(lines, visible, options, line, pos, Width, Height)

\* ui.add_response for each response in turn: the buffer and the prints.
RECURSIVE AddResponses(_, _)
AddResponses(lines, responses) ==
    IF responses = <<>> THEN [lines |-> lines, ops |-> <<>>]
    ELSE LET after == add_conversation_line(lines, Head(responses), "assistant", Width)
             rest == AddResponses(after, Tail(responses))
         IN  [lines |-> rest.lines,
              ops |-> Refresh(after, autocomplete_visible, autocomplete_options,
                              input_line, cursor_pos) \o rest.ops]

\* --------------------------------------------------------- the main thread

\* main(): the four information lines, the SIGINT handler.
MainSetup ==
    /\ pc = "main"
    /\ conversation_lines' =
         add_conversation_line(
           add_conversation_line(
             add_conversation_line(
               add_conversation_line(conversation_lines, InfoRoot, "system", Width),
               InfoWrite, "system", Width),
             InfoAuto, "system", Width),
           <<>>, "system", Width)
    /\ pc' = "start"
    /\ UNCHANGED <<otherVars, editVars, running, user_input, result, exc, mops, mbusy,
                   statusVars, termVars, tty_raw, keyVars>>

\* start(): running = True, clear_screen(), hide_cursor()
StartBegin ==
    /\ pc = "start"
    /\ running' = TRUE
    /\ mops' = clear_screen \o hide_cursor
    /\ mbusy' = FALSE
    /\ pc' = "start2"
    /\ UNCHANGED <<otherVars, editVars, conversation_lines, user_input, result, exc,
                   statusVars, termVars, tty_raw, keyVars>>

\* start(): the two banner lines, start_status_updates(), then inside the try
\* refresh_display() and show_cursor()
StartBody ==
    /\ pc = "start2"
    /\ mops = <<>>
    /\ conversation_lines' =
         add_conversation_line(
           add_conversation_line(conversation_lines, Banner1, "system", Width),
           Banner2, "system", Width)
    /\ spc' = "wait"
    /\ mops' = Refresh(conversation_lines', autocomplete_visible, autocomplete_options,
                       input_line, cursor_pos) \o show_cursor
    /\ mbusy' = FALSE
    /\ pc' = "handle_input"
    /\ UNCHANGED <<otherVars, editVars, running, user_input, result, exc, sops, sbusy,
                   termVars, tty_raw, keyVars>>

\* One print of the main thread reaches the terminal ("cooked" is the
\* tcsetattr of get_char's finally clause during an unwinding).
MainWrite ==
    /\ pc # "exited"
    /\ mops # <<>>
    /\ LET op == Head(mops) IN
         /\ cursor' = CursorAfter(op, cursor, saved_cursor, tty_raw, Width, Height)
         /\ saved_cursor' = SavedAfter(op, cursor, saved_cursor)
         /\ cursor_visible' = VisibleAfter(op, cursor_visible)
         /\ tty_raw' = IF op.k = "cooked" THEN FALSE ELSE tty_raw
    /\ mops' = Tail(mops)
    /\ mbusy' = (Tail(mops) # <<>>)
    /\ UNCHANGED <<otherVars, uiVars, pc, user_input, result, exc, statusVars, keyVars>>

ReadPcs == {"handle_input", "esc_next", "esc_arrow"}

\* get_char(): tcgetattr, tty.setraw, then the blocking read
GetCharSetRaw ==
    /\ pc \in ReadPcs
    /\ mops = <<>>
    /\ ~tty_raw
    /\ tty_raw' = TRUE
    /\ UNCHANGED <<otherVars, uiVars, pc, user_input, result, exc, mops, mbusy, statusVars,
                   termVars, keyVars>>

\* The read of get_char returns the next byte; its finally clause restores
\* the tty before handle_input looks at the byte.
CanRead == tty_raw /\ mops = <<>> /\ pending # <<>>
Consume ==
    /\ tty_raw' = FALSE
    /\ pending' = Tail(pending)
    /\ UNCHANGED <<otherVars, keysLeft, eof, escChunk, escSnap>>

\* handle_input raises exception e: start() swallows KeyboardInterrupt and
\* EOFError, its finally clause calls stop(); the for loop of main() ends (or
\* is left by the exception) and its finally clause calls stop() again.
RaiseFromInput(e) ==
    /\ exc' = e
    /\ running' = FALSE
    /\ mops' = StopOps \o StopOps
    /\ mbusy' = FALSE
    /\ pc' = "exiting"
    /\ UNCHANGED <<otherVars, editVars, conversation_lines, user_input, result, statusVars, termVars>>

\* ord(char) == 3
ReadCtrlC ==
    /\ pc = "handle_input" /\ CanRead /\ Head(pending) = 3
    /\ Consume
    /\ RaiseFromInput("KeyboardInterrupt")

\* ord(char) == 4
ReadCtrlD ==
    /\ pc = "handle_input" /\ CanRead /\ Head(pending) = 4
    /\ Consume
    /\ RaiseFromInput("EOFError")

\* The read returns '' at end of input and ord('') raises TypeError.
ReadEof ==
    /\ pc = "handle_input" /\ tty_raw /\ mops = <<>> /\ pending = <<>> /\ eof
    /\ tty_raw' = FALSE
    /\ UNCHANGED keyVars
    /\ RaiseFromInput("TypeError")

\* ord(char) == 13: the line is returned and yielded to main()
ReadEnter ==
    /\ pc = "handle_input" /\ CanRead /\ Head(pending) = 13
    /\ Consume
    /\ LET ac == clear_autocomplete(autocomplete_visible, autocomplete_options, Height) IN
         /\ user_input' = input_line
         /\ input_line' = <<>>
         /\ cursor_pos' = 0
         /\ autocomplete_visible' = ac.visible
         /\ autocomplete_options' = ac.options
         /\ mops' = ac.ops
    /\ mbusy' = FALSE
    /\ pc' = "yielded"
    /\ UNCHANGED <<otherVars, conversation_lines, running, result, exc, statusVars, termVars>>

\* The buffer became line with the cursor at pos: update_autocomplete() and
\* refresh_display().
Edited(line, pos) ==
    LET ac == update_autocomplete(line, autocomplete_visible, autocomplete_options, Height) IN
    /\ input_line' = line
    /\ cursor_pos' = pos
    /\ autocomplete_visible' = ac.visible
    /\ autocomplete_options' = ac.options
    /\ mops' = ac.ops \o Refresh(conversation_lines, ac.visible, ac.options, line, pos)
    /\ mbusy' = FALSE

\* ord(char) == 127 or ord(char) == 8
ReadBackspace ==
    /\ pc = "handle_input" /\ CanRead /\ Head(pending) \in {127, 8}
    /\ Consume
    /\ IF cursor_pos > 0
       THEN Edited(DeleteBefore(input_line, cursor_pos), cursor_pos - 1)
       ELSE UNCHANGED <<editVars, mops, mbusy>>
    /\ UNCHANGED <<otherVars, conversation_lines, running, pc, user_input, result, exc,
                   statusVars, termVars>>

\* 32 <= ord(char) <= 126
ReadPrintable ==
    /\ pc = "handle_input" /\ CanRead /\ Head(pending) >= 32 /\ Head(pending) <= 126
    /\ Consume
    /\ Edited(InsertChar(input_line, cursor_pos, Head(pending)), cursor_pos + 1)
    /\ UNCHANGED <<otherVars, conversation_lines, running, pc, user_input, result, exc,
                   statusVars, termVars>>

\* ord(char) == 27
ReadEscape ==
    /\ pc = "handle_input" /\ CanRead /\ Head(pending) = 27
    /\ Consume
    /\ pc' = "esc_next"
    /\ UNCHANGED <<otherVars, uiVars, user_input, result, exc, mops, mbusy, statusVars, termVars>>

\* A loop that repaints after a byte it has no branch for.
ReadOtherRepainting ==
    /\ pc = "handle_input" /\ CanRead
    /\ Head(pending) \notin {3, 4, 13, 127, 8, 27}
    /\ ~(Head(pending) >= 32 /\ Head(pending) <= 126)
    /\ Consume
    /\ mops' = Refresh(conversation_lines, autocomplete_visible, autocomplete_options,
                       input_line, cursor_pos)
    /\ UNCHANGED <<otherVars, uiVars, pc, user_input, result, exc, mbusy, statusVars, termVars>>
\* Any other byte falls through the if chain.
ReadOther ==
    /\ pc = "handle_input" /\ CanRead
    /\ Head(pending) \notin {3, 4, 13, 127, 8, 27}
    /\ ~(Head(pending) >= 32 /\ Head(pending) <= 126)
    /\ Consume
    /\ UNCHANGED <<otherVars, uiVars, pc, user_input, result, exc, mops, mbusy, statusVars, termVars>>

\* next_char = self.get_char(): '[' leads to the third read, anything else
\* (the empty string of end of input included) is dropped.
ReadEscNext ==
    /\ pc = "esc_next" /\ tty_raw /\ mops = <<>>
    /\ \/ /\ pending # <<>>
          /\ Consume
          /\ pc' = IF Head(pending) = 91 THEN "esc_arrow" ELSE "handle_input"
       \/ /\ pending = <<>> /\ eof
          /\ tty_raw' = FALSE
          /\ UNCHANGED keyVars
          /\ pc' = "handle_input"
    /\ UNCHANGED <<otherVars, uiVars, user_input, result, exc, mops, mbusy, statusVars, termVars>>

\* arrow = self.get_char(): 'D' and 'C' move the cursor and repaint the
\* input line, anything else is dropped.
ReadEscArrow ==
    /\ pc = "esc_arrow" /\ tty_raw /\ mops = <<>>
    /\ \/ /\ pending # <<>>
          /\ Consume
          /\ LET arrow == Head(pending)
                 pos == IF arrow = 68 THEN LeftPos(input_line, cursor_pos)
                        ELSE IF arrow = 67 THEN RightPos(input_line, cursor_pos)
                        ELSE cursor_pos
             IN  /\ cursor_pos' = pos
                 /\ mops' = IF pos # cursor_pos
                            THEN draw_input_area(input_line, pos, Width, Height)
                            ELSE <<>>
       \/ /\ pending = <<>> /\ eof
          /\ tty_raw' = FALSE
          /\ UNCHANGED <<keyVars, cursor_pos, mops>>
    /\ mbusy' = FALSE
    /\ pc' = "handle_input"
    /\ UNCHANGED <<otherVars, input_line, conversation_lines, autocomplete_visible,
                   autocomplete_options, running, user_input, result, exc,
                   statusVars, termVars>>

\* main(): "if not user_input.strip(): continue"
CallerSkip ==
    /\ pc = "yielded" /\ mops = <<>>
    /\ StripIsEmpty(user_input)
    /\ pc' = "resume"
    /\ UNCHANGED <<otherVars, uiVars, user_input, result, exc, mops, mbusy, statusVars,
                   termVars, tty_raw, keyVars>>

\* main(): ":quit" and ":exit" break out of the loop; the finally clause
\* calls stop(), and closing the suspended generator runs the finally clause
\* of start(), which calls stop() again.
CallerQuit ==
    /\ pc = "yielded" /\ mops = <<>>
    /\ user_input \in {QuitCmd, ExitCmd}
    /\ running' = FALSE
    /\ mops' = StopOps \o StopOps
    /\ mbusy' = FALSE
    /\ pc' = "exiting"
    /\ UNCHANGED <<otherVars, editVars, conversation_lines, user_input, result, exc,
                   statusVars, termVars, tty_raw, keyVars>>

\* The responses main() gives to ":help", "/status..." and any other "/..."
CommandResponses(line) ==
    IF line = HelpCmd THEN <<HelpText>>
    ELSE IF StartsWith(line, StatusCmd) THEN <<StatusLabel \o SampleStatus>>
    ELSE <<CommandDetected \o line, ComingSoon>>

IsCommand(line) == line = HelpCmd \/ StartsWith(line, <<47>>)

\* main(): the command branches, each ending in "continue"
CallerCommand ==
    /\ pc = "yielded" /\ mops = <<>>
    /\ ~StripIsEmpty(user_input)
    /\ user_input \notin {QuitCmd, ExitCmd}
    /\ IsCommand(user_input)
    /\ LET r == AddResponses(conversation_lines, CommandResponses(user_input)) IN
         /\ conversation_lines' = r.lines
         /\ mops' = r.ops
    /\ mbusy' = FALSE
    /\ pc' = "resume"
    /\ UNCHANGED <<otherVars, editVars, running, user_input, result, exc, statusVars,
                   termVars, tty_raw, keyVars>>

\* A caller without the test of the stripped line.
CallerChatAnyLine ==
    /\ pc = "yielded" /\ mops = <<>>
    /\ user_input \notin {QuitCmd, ExitCmd}
    /\ ~IsCommand(user_input)
    /\ pc' = "invoke"
    /\ UNCHANGED <<otherVars, uiVars, user_input, result, exc, mops, mbusy, statusVars,
                   termVars, tty_raw, keyVars>>
\* main(): "Regular chat": agent.invoke is called
CallerChat ==
    /\ pc = "yielded" /\ mops = <<>>
    /\ ~StripIsEmpty(user_input)
    /\ user_input \notin {QuitCmd, ExitCmd}
    /\ ~IsCommand(user_input)
    /\ pc' = "invoke"
    /\ UNCHANGED <<otherVars, uiVars, user_input, result, exc, mops, mbusy, statusVars,
                   termVars, tty_raw, keyVars>>

\* agent.invoke returns a text, returns a blank text, or raises.
BackendReturn ==
    /\ pc = "invoke"
    /\ \E r \in {"text", "blank", "raise"} : result' = r
    /\ pc' = "invoked"
    /\ UNCHANGED <<otherVars, uiVars, user_input, exc, mops, mbusy, statusVars, termVars,
                   tty_raw, keyVars>>

\* The text main() hands to ui.add_response for an outcome of agent.invoke.
ResponseFor(r) ==
    IF r = "text" THEN AgentText
    ELSE IF r = "blank" THEN NoResponse
    ELSE ErrorLabel \o AgentError

\* main(): ui.add_response(text), ui.add_response("(no response)") or, in the
\* except clause, ui.add_response(f"Error: {str(e)}")
CallerResult ==
    /\ pc = "invoked"
    /\ LET r == AddResponses(conversation_lines, <<ResponseFor(result)>>) IN
         /\ conversation_lines' = r.lines
         /\ mops' = r.ops
    /\ mbusy' = FALSE
    /\ result' = "none"
    /\ pc' = "resume"
    /\ UNCHANGED <<otherVars, editVars, running, user_input, exc, statusVars, termVars,
                   tty_raw, keyVars>>

\* start() resumes after the yield: the user line is added and the display
\* refreshed, then "while self.running" goes back to handle_input().
Resume ==
    /\ pc = "resume" /\ mops = <<>>
    /\ conversation_lines' = add_conversation_line(conversation_lines, user_input, "user", Width)
    /\ mops' = Refresh(conversation_lines', autocomplete_visible, autocomplete_options,
                       input_line, cursor_pos)
    /\ mbusy' = FALSE
    /\ user_input' = <<>>
    /\ pc' = "handle_input"
    /\ UNCHANGED <<otherVars, editVars, running, result, exc, statusVars, termVars, tty_raw, keyVars>>

\* SIGINT (the tty generates it for Ctrl-C whenever it is not in raw mode, and
\* kill can send it at any time): signal_handler calls ui.stop() and
\* sys.exit(0).  SystemExit then unwinds the main thread: through the finally
\* clause of get_char when it is reading, through the finally clause of
\* start() when the generator is inside its try statement or suspended at the
\* yield, and through the finally clause of main().
InsideGenerator == pc \notin {"start", "start2"}
GetCharFinally == <<Op("cooked", 0, 0)>>
Sigint ==
    /\ pc \notin {"main", "exiting", "exited"}
    /\ running' = FALSE
    /\ exc' = "SystemExit"
    /\ mops' = StopOps
               \o (IF tty_raw THEN GetCharFinally ELSE <<>>)
               \o (IF InsideGenerator THEN StopOps ELSE <<>>)
               \o StopOps
    /\ mbusy' = FALSE
    /\ pc' = "exiting"
    /\ UNCHANGED <<otherVars, editVars, conversation_lines, user_input, result, statusVars,
                   termVars, tty_raw, keyVars>>

\* The last stop() has printed; the process ends.
Exit ==
    /\ pc = "exiting" /\ mops = <<>>
    /\ pc' = "exited"
    /\ UNCHANGED <<otherVars, uiVars, user_input, result, exc, mops, mbusy, statusVars,
                   termVars, tty_raw, keyVars>>

\* ------------------------------------------------------------ the keyboard

\* A burst of bytes is typed while the main thread waits in the read.
KeyPress ==
    /\ tty_raw /\ pending = <<>> /\ ~eof /\ keysLeft > 0
    /\ pc \in ReadPcs
    /\ \E chunk \in Chunks :
         /\ pending' = chunk
         /\ escChunk' = IF Head(chunk) = 27 THEN chunk ELSE <<>>
    /\ escSnap' = [line |-> input_line, pos |-> cursor_pos]
    /\ keysLeft' = keysLeft - 1
    /\ UNCHANGED <<otherVars, uiVars, pc, user_input, result, exc, mops, mbusy, statusVars,
                   termVars, tty_raw, eof>>

\* The input stream ends.
Hangup ==
    /\ tty_raw /\ pending = <<>> /\ ~eof
    /\ pc \in ReadPcs
    /\ eof' = TRUE
    /\ UNCHANGED <<otherVars, uiVars, pc, user_input, result, exc, mops, mbusy, statusVars,
                   termVars, tty_raw, pending, keysLeft, escChunk, escSnap>>

\* ------------------------------------------------- the status update thread

\* update_loop: "while self.running" after the sleep (or at thread start)
StatusTick ==
    /\ spc = "wait" /\ pc # "exited"
    /\ IF running
       THEN /\ sops' = StatusTickOps(Width, Height)
            /\ spc' = "paint"
       ELSE /\ sops' = <<>>
            /\ spc' = "done"
    /\ sbusy' = FALSE
    /\ UNCHANGED <<otherVars, uiVars, pc, user_input, result, exc, mops, mbusy, termVars,
                   tty_raw, keyVars>>

\* One print of the status thread reaches the terminal; after the last one
\* the thread flushes and sleeps.
StatusWrite ==
    /\ spc = "paint" /\ pc # "exited"
    /\ sops # <<>>
    /\ LET op == Head(sops) IN
         /\ cursor' = CursorAfter(op, cursor, saved_cursor, tty_raw, Width, Height)
         /\ saved_cursor' = SavedAfter(op, cursor, saved_cursor)
         /\ cursor_visible' = VisibleAfter(op, cursor_visible)
    /\ sops' = Tail(sops)
    /\ sbusy' = (Tail(sops) # <<>>)
    /\ spc' = IF Tail(sops) = <<>> THEN "wait" ELSE "paint"
    /\ UNCHANGED <<otherVars, uiVars, pc, user_input, result, exc, mops, mbusy, tty_raw, keyVars>>

\* ---------------------------------------------------------- specifications

MainNext ==
    \/ MainSetup \/ StartBegin \/ StartBody \/ MainWrite \/ GetCharSetRaw
    \/ ReadCtrlC \/ ReadCtrlD \/ ReadEof \/ ReadEnter \/ ReadBackspace
    \/ ReadPrintable \/ ReadEscape \/ ReadOther \/ ReadEscNext \/ ReadEscArrow
    \/ CallerSkip \/ CallerQuit \/ CallerCommand \/ CallerChat
    \/ BackendReturn \/ CallerResult \/ Resume \/ Sigint \/ Exit
    \/ KeyPress \/ Hangup

Next == MainNext \/ StatusTick \/ StatusWrite

\* The program with both threads.
Spec == Init /\ [][Next]_vars

\* The runs of the program in which the status thread is never scheduled.
SpecMain == InitMain /\ [][MainNext]_vars

\* ------------------------------------------- the conversation buffers

\* What the appends to the buffers leave alone.
loopVars == <<editVars, running, pc, user_input, result, exc, mops, mbusy,
              statusVars, termVars, tty_raw, keyVars>>

\* The texts appended, the senders, and the terminal widths.
WrapTexts == { <<>>, <<97, 98>>, <<97, 98, 99, 100, 101, 102, 103, 104, 105, 106>>, <<97, 98, 32, 99, 100, 32, 32, 101, 102, 103, 32, 104>>, <<32, 32, 32>>, <<32, 97, 32, 98, 99, 10, 100, 101, 102, 32>> }
Senders == {"user", "assistant", "system"}
WrapWidths == {4, 9, Width}
LiveTexts == { <<97, 98>>, <<115, 101, 101, 32, 91, 98, 93, 116, 104, 105, 115, 91, 47, 98, 93>> }

\* Both buffers hold nothing, or are short of their caps by one line, or are
\* full.
StartLength(fill, cap) ==
    IF fill = "empty" THEN 0 ELSE IF fill = "nearly" THEN cap - 1 ELSE cap

\* Both buffers after some numbered messages, MaxAppends appends to come.
InitBuffer ==
    /\ InitUI(0)
    /\ InitStatusLine(0)
    /\ InitMatching
    /\ InitLookups
    /\ \E fill \in {"empty", "nearly", "full"} :
          /\ conversation_lines = Numbered(StartLength(fill, RetentionCap))
          /\ appended = conversation_lines
          /\ live_lines = Numbered(StartLength(fill, LiveCap))
          /\ live_appended = live_lines
    /\ \E w \in WrapWidths : wrapped = NoWrap(w)
    /\ appends_left = MaxAppends

\* TerminalUI.add_conversation_line(text, sender)
AddConversationLine ==
    /\ appends_left > 0
    /\ \E text \in WrapTexts, sender \in Senders :
         LET lines == FormatLines(text, sender, wrapped.w) IN
         /\ conversation_lines' =
                add_conversation_line(conversation_lines, text, sender, wrapped.w)
         /\ appended' = appended \o lines
         /\ wrapped' = [called |-> TRUE, text |-> text, sender |-> sender,
                        w |-> wrapped.w, lines |-> lines]
    /\ appends_left' = appends_left - 1
    /\ UNCHANGED <<loopVars, live_lines, live_appended, gitVars, matchVars, raceVars>>

\* LiveUI.add_message(message, sender)
AddMessage ==
    /\ appends_left > 0
    /\ \E message \in LiveTexts, sender \in Senders \cup {"deepagents"} :
         /\ live_lines' = add_message(live_lines, message, sender)
         /\ live_appended' = Append(live_appended, LiveFormatted(message, sender))
    /\ appends_left' = appends_left - 1
    /\ UNCHANGED <<loopVars, conversation_lines, appended, wrapped, gitVars, matchVars, raceVars>>

BufferNext == AddConversationLine \/ AddMessage

\* The two conversation buffers under appends.
SpecBuffer == InitBuffer /\ [][BufferNext]_vars

\* ------------------------------------------------------- the status line

\* The surroundings of a call: every combination of failing lookups, every
\* model selection, every answer of git.
Envs ==
    { [failing |-> f, selection |-> CalmEnv.selection, git |-> "main"] :
        f \in SUBSET Failures }
    \cup { [failing |-> {}, selection |-> s, git |-> g] :
             s \in Selections \cup {CalmEnv.selection}, g \in GitAnswers }
\* For a branch lookup only the working directory and git matter.
LookupEnvs ==
    { [failing |-> f, selection |-> CalmEnv.selection, git |-> g] :
        f \in {{}, {"cwd"}}, g \in GitAnswers }

InitStatus ==
    /\ InitUI(0)
    /\ conversation_lines = <<>>
    /\ InitBuffers
    /\ InitMatching
    /\ InitLookups
    /\ InitStatusLine(MaxCalls)

\* What the status line leaves alone.
uiLoopVars == <<loopVars, conversation_lines, bufVars, matchVars, raceVars>>

\* A second passes.
Tick ==
    /\ now < StartTime + MaxTicks
    /\ now' = now + 1
    /\ UNCHANGED <<uiLoopVars, cwd, env, last_git_check, cached_git_branch,
                   cached_git_path, calls_left, lookup, status_out>>

\* The process changes its working directory.
Chdir ==
    /\ \E p \in Paths \cup {HomePath} : p # cwd /\ cwd' = p
    /\ UNCHANGED <<uiLoopVars, now, env, last_git_check, cached_git_branch,
                   cached_git_path, calls_left, lookup, status_out>>

\* A call of get_git_branch in surroundings e.
Lookup(force_refresh, e) ==
    LET r == get_git_branch(force_refresh, e, now, cwd,
                            Cache(last_git_check, cached_git_branch, cached_git_path))
    IN  /\ calls_left > 0
        /\ calls_left' = calls_left - 1
        /\ env' = e
        /\ last_git_check' = r.cache.last_git_check
        /\ cached_git_branch' = r.cache.cached_git_branch
        /\ cached_git_path' = r.cache.cached_git_path
        /\ lookup' = LookupOf(force_refresh, r)
        /\ UNCHANGED <<uiLoopVars, now, cwd, status_out>>

\* status_line.get_git_branch()
GetGitBranch == \E e \in LookupEnvs : Lookup(FALSE, e)

\* refresh_git_cache()
RefreshGitCache == \E e \in LookupEnvs : Lookup(TRUE, e)

\* get_status_line()
GenerateStatusLine ==
    /\ calls_left > 0
    /\ calls_left' = calls_left - 1
    /\ \E e \in Envs :
         LET r == generate_status_line(e, now, cwd,
                      Cache(last_git_check, cached_git_branch, cached_git_path))
         IN  /\ env' = e
             /\ last_git_check' = r.cache.last_git_check
             /\ cached_git_branch' = r.cache.cached_git_branch
             /\ cached_git_path' = r.cache.cached_git_path
             /\ lookup' = IF r.looked THEN LookupOf(FALSE, r.git) ELSE lookup
             /\ status_out' = [called |-> TRUE, raised |-> r.raised, value |-> r.value,
                               at |-> now, dir |-> cwd,
                               branch |-> IF r.looked THEN r.git.value ELSE None]
    /\ UNCHANGED <<uiLoopVars, now, cwd>>

StatusNext == Tick \/ Chdir \/ GetGitBranch \/ RefreshGitCache \/ GenerateStatusLine

\* The status line under calls, a running clock and directory changes.
SpecStatus == InitStatus /\ [][StatusNext]_vars

\* ---------------------------------------------------- command matching

\* The partial inputs: the beginnings of these lines.
PartialLines == { <<116, 97, 115, 107, 32, 97, 32, 98>>, <<116, 97, 115, 107, 32, 100>>, <<109, 111>>, <<77, 79, 68, 69, 76, 32, 108, 105>>, <<115, 116, 97, 116, 117, 115>>, <<109, 101, 109, 111, 114, 121, 32, 120, 32, 121>>, <<119, 114>>, <<97, 103, 101, 110, 116, 32, 32, 104, 101>> }
Partials == { Take(l, n) : l \in PartialLines, n \in 0..MaxPartial }

InitMatch ==
    /\ InitUI(0)
    /\ conversation_lines = <<>>
    /\ InitBuffers
    /\ InitStatusLine(0)
    /\ InitMatching
    /\ InitLookups

\* The user's partial input changes.
TypePartial ==
    /\ \E p \in Partials : p # partial /\ partial' = p
    /\ UNCHANGED <<loopVars, conversation_lines, bufVars, gitVars, raceVars, matches_out,
                   suggestion_out, slash_out>>

\* get_matching_commands(partial); the records hold the last call only
GetMatchingCommands ==
    /\ matches_out' = [called |-> TRUE, partial |-> partial,
                       result |-> get_matching_commands(partial)]
    /\ suggestion_out' = NoSuggestion
    /\ slash_out' = NoSlash
    /\ UNCHANGED <<loopVars, conversation_lines, bufVars, gitVars, raceVars, partial>>

\* get_command_suggestion(partial)
GetCommandSuggestion ==
    /\ suggestion_out' = [called |-> TRUE, partial |-> partial,
                          result |-> get_command_suggestion(partial)]
    /\ matches_out' = NoMatches
    /\ slash_out' = NoSlash
    /\ UNCHANGED <<loopVars, conversation_lines, bufVars, gitVars, raceVars, partial>>

\* handle_slash_input(user) in the loop of claude_style_cli.main: the line
\* typed is the partial input, with or without a leading '/'
HandleSlashInput ==
    /\ \E user \in {partial, <<47>> \o partial} :
         LET out == handle_slash_input(user) IN
         slash_out' = [called |-> TRUE, input |-> user,
                       returned |-> out.returned, display |-> out.display]
    /\ matches_out' = NoMatches
    /\ suggestion_out' = NoSuggestion
    /\ UNCHANGED <<loopVars, conversation_lines, bufVars, gitVars, raceVars, partial>>

MatchNext ==
    \/ TypePartial
    \/ GetMatchingCommands
    \/ GetCommandSuggestion
    \/ HandleSlashInput

\* The calls of the command autocomplete under changing partial inputs.
SpecMatch == InitMatch /\ [][MatchNext]_vars

\* -------------------------------------------- the cache under two threads

InitCache ==
    /\ InitUI(0)
    /\ conversation_lines = <<>>
    /\ InitBuffers
    /\ InitMatching
    /\ InitLookups
    /\ InitStatusLine(MaxCalls)

CacheFrame == <<loopVars, conversation_lines, bufVars, matchVars, now, cwd, env, lookup,
                status_out>>

\* get_git_branch() up to its first return: the clock and the directory are
\* read and the cache is tested; a hit returns the cached branch.
BeginLookup(t) ==
    /\ lookups[t].pc = "idle"
    /\ calls_left > 0
    /\ calls_left' = calls_left - 1
    /\ IF /\ now - last_git_check < GitTtl
          /\ cached_git_path = cwd
          /\ cached_git_branch # None
       THEN UNCHANGED lookups
       ELSE lookups' = [lookups EXCEPT ![t] =
                [pc |-> "git", current_time |-> now, current_path |-> cwd,
                 branch |-> None]]
    /\ UNCHANGED <<CacheFrame, last_git_check, cached_git_branch, cached_git_path,
                   cache_writers>>

\* The subprocess.run calls: the branch git names, or None (not a
\* repository, a detached HEAD, git missing or timing out).
RunGit(t) ==
    /\ lookups[t].pc = "git"
    /\ \E g \in GitAnswers :
         LET branch == Strip(BranchStdout(g)) IN
         lookups' = [lookups EXCEPT ![t].pc = "branch",
                                    ![t].branch = IF branch # <<>> THEN branch ELSE None]
    /\ UNCHANGED <<CacheFrame, calls_left, last_git_check, cached_git_branch,
                   cached_git_path, cache_writers>>

WriterOf(t) == Writer(lookups[t].current_time, lookups[t].current_path, lookups[t].branch)

\* "self.cached_git_branch = ..." (lines 109, 115, 122)
WriteBranch(t) ==
    /\ lookups[t].pc = "branch"
    /\ cached_git_branch' = lookups[t].branch
    /\ cache_writers' = [cache_writers EXCEPT !.branch = WriterOf(t)]
    /\ lookups' = [lookups EXCEPT ![t].pc = "path"]
    /\ UNCHANGED <<CacheFrame, calls_left, last_git_check, cached_git_path>>

\* "self.cached_git_path = current_path" (lines 110, 116, 123)
WritePath(t) ==
    /\ lookups[t].pc = "path"
    /\ cached_git_path' = lookups[t].current_path
    /\ cache_writers' = [cache_writers EXCEPT !.path = WriterOf(t)]
    /\ lookups' = [lookups EXCEPT ![t].pc = "check"]
    /\ UNCHANGED <<CacheFrame, calls_left, last_git_check, cached_git_branch>>

\* "self.last_git_check = current_time" (lines 111, 117, 124) and the return
WriteCheck(t) ==
    /\ lookups[t].pc = "check"
    /\ last_git_check' = lookups[t].current_time
    /\ cache_writers' = [cache_writers EXCEPT !.check = WriterOf(t)]
    /\ lookups' = [lookups EXCEPT ![t] = NoCall]
    /\ UNCHANGED <<CacheFrame, calls_left, cached_git_branch, cached_git_path>>

CacheNext ==
    \/ Tick
    \/ Chdir
    \/ \E t \in Threads :
         BeginLookup(t) \/ RunGit(t) \/ WriteBranch(t) \/ WritePath(t) \/ WriteCheck(t)

\* get_git_branch called by the main thread and by the status update
\* thread, one statement at a time.
SpecCache == InitCache /\ [][CacheNext]_vars

\* ------------------------------------------------- the input line painter

\* Lines of every length up to MaxOverflow more than the terminal is wide.
CaretLines == { [i \in 1..n |-> 120] : n \in 0..(Width + MaxOverflow) }

\* A line is in the buffer, the cursor anywhere in it, the loop reading.
InitCaret ==
    /\ input_line \in CaretLines
    /\ cursor_pos \in 0..Len(input_line)
    /\ autocomplete_visible = FALSE
    /\ autocomplete_options = <<>>
    /\ running = TRUE
    /\ pc = "handle_input"
    /\ user_input = <<>>
    /\ result = "none"
    /\ exc = "none"
    /\ mops = <<>>
    /\ mbusy = FALSE
    /\ spc = "idle"
    /\ sops = <<>>
    /\ sbusy = FALSE
    /\ cursor = <<1, 1>>
    /\ saved_cursor = <<1, 1>>
    /\ cursor_visible = TRUE
    /\ tty_raw = FALSE
    /\ pending = <<>>
    /\ keysLeft = 0
    /\ eof = FALSE
    /\ escChunk = <<>>
    /\ escSnap = [line |-> <<>>, pos |-> 0]
    /\ conversation_lines = <<>>
    /\ InitBuffers
    /\ InitStatusLine(0)
    /\ InitMatching
    /\ InitLookups

CaretFrame == <<otherVars, input_line, conversation_lines, autocomplete_visible,
                autocomplete_options, running, pc, user_input, result, exc, mbusy,
                statusVars, termVars, tty_raw, keyVars>>

\* handle_input, Left arrow with the cursor able to move
ArrowLeft ==
    /\ cursor_pos > 0
    /\ cursor_pos' = LeftPos(input_line, cursor_pos)
    /\ mops' = draw_input_area(input_line, cursor_pos', Width, Height)
    /\ UNCHANGED CaretFrame

\* handle_input, Right arrow with the cursor able to move
ArrowRight ==
    /\ cursor_pos < Len(input_line)
    /\ cursor_pos' = RightPos(input_line, cursor_pos)
    /\ mops' = draw_input_area(input_line, cursor_pos', Width, Height)
    /\ UNCHANGED CaretFrame

\* draw_input_area() for the buffer and cursor as they are
DrawInputArea ==
    /\ mops # draw_input_area(input_line, cursor_pos, Width, Height)
    /\ mops' = draw_input_area(input_line, cursor_pos, Width, Height)
    /\ UNCHANGED <<CaretFrame, cursor_pos>>

CaretNext == ArrowLeft \/ ArrowRight \/ DrawInputArea

\* draw_input_area for lines shorter and longer than the input row.
SpecCaret == InitCaret /\ [][CaretNext]_vars

\* ------------------------------------------------------------- properties

\* Operators used to state the properties below.
LastOf(s) == s[Len(s)]
EndsWith(s, t) == Len(t) <= Len(s) /\ SubSeq(s, Len(s) - Len(t) + 1, Len(s)) = t
Contains(s, t) == \E i \in 0..(Len(s) - Len(t)) : SubSeq(s, i + 1, i + Len(t)) = t
InputRow == Height - 2
StatusRow == Height

\* C1: the terminal writes of the main thread and of the status update thread
\* are mutually exclusive: never has each of the two threads made some, and
\* not yet all, of the prints of its current repaint.
C1_MutualExclusion == ~(mbusy /\ sbusy)

\* C2: whenever the process has ended (quit command, Ctrl-C, Ctrl-D, SIGINT,
\* an unhandled error), the tty is back in its original non-raw mode and the
\* cursor is visible.
C2_TerminalRestored == pc = "exited" => (~tty_raw /\ cursor_visible)
\* The process ended by the unhandled TypeError of the input loop.
C2_Witness == pc = "exited" /\ exc = "TypeError"

\* C3: when the backend is invoked for a submitted line, the user turn of that
\* line is already the last entry of the Conversation Buffer.
C3_UserTurnBeforeInvoke ==
    pc = "invoke" => EndsWith(conversation_lines, FormatLines(user_input, "user", Width))

\* C4: the step that handles a backend failure adds exactly one conversation
\* line, and that line has sender system and contains the error indication.
C4_FailureAddsOneSystemLine ==
    [][(pc = "invoked" /\ result = "raise" /\ pc' = "resume")
       => /\ Len(conversation_lines') = Len(conversation_lines) + 1
          /\ SenderOf(LastOf(conversation_lines')) = "system"
          /\ Contains(LastOf(conversation_lines'), ErrorLabel)]_vars

\* C5: when the main thread makes the last print of a repaint (the full
\* repaint after a key or a submit, the input-line repaint after an arrow
\* key; the first repaint of start(), which ends with show_cursor, is left
\* out), the cursor is on the input row, at the column of the cursor offset
\* after the prompt (counted from 0 or from 1).
C5_CaretAfterRepaint ==
    [][(pc = "handle_input" /\ Len(mops) = 1 /\ Head(mops).k # "show" /\ mops' = <<>>)
       => /\ cursor'[1] = InputRow
          /\ cursor'[2] \in {PromptWidth + cursor_pos, PromptWidth + cursor_pos + 1}]_vars

\* C6: a status tick starts with save-cursor and ends with restore-cursor, and
\* every print of the status thread that erases or writes characters does so
\* on the status row.
C6_StatusPaintOnStatusRow ==
    [][(sops # <<>> /\ sops' = Tail(sops))
       => /\ Head(StatusTickOps(Width, Height)).k = "save"
          /\ LastOf(StatusTickOps(Width, Height)).k = "restore"
          /\ (IsContent(Head(sops)) => cursor[1] = StatusRow)]_vars

\* C7: the cursor offset is always within [0, len(input_line)].
C7_CursorInRange == 0 <= cursor_pos /\ cursor_pos <= Len(input_line)
\* A Right arrow was processed with the cursor at the end of a non-empty line.
C7_Witness ==
    /\ escChunk = RightKey /\ pending = <<>> /\ pc = "handle_input"
    /\ input_line # <<>> /\ cursor_pos = Len(input_line) /\ escSnap.pos = Len(input_line)

\* C8: the step that reads Enter yields exactly the buffer as it was, and
\* leaves the buffer empty, the cursor offset 0 and autocomplete hidden with
\* an empty match list.
C8_EnterReturnsAndClears ==
    [][(pc = "handle_input" /\ pc' = "yielded")
       => /\ user_input' = input_line
          /\ input_line' = <<>>
          /\ cursor_pos' = 0
          /\ ~autocomplete_visible'
          /\ autocomplete_options' = <<>>]_vars
\* Enter was read while the buffer was "/" and the menu was shown.
C8_Witness == pc = "yielded" /\ user_input = <<47>> /\ ~autocomplete_visible

\* C9: once every byte of a burst that begins with ESC and is not a Left or
\* Right arrow has been read, the line buffer and the cursor offset are what
\* they were when the burst was typed, and (unless the input has ended)
\* handle_input has raised nothing.
C9_EscapeSequenceDiscarded ==
    (escChunk # <<>> /\ escChunk \notin {LeftKey, RightKey} /\ pending = <<>>)
    => /\ input_line = escSnap.line
       /\ cursor_pos = escSnap.pos
       /\ (~eof => exc \notin {"TypeError", "KeyboardInterrupt", "EOFError"})

\* C10: every step that reads the byte 3 from the keyboard raises
\* KeyboardInterrupt out of handle_input.
C10_CtrlCAlwaysCancels ==
    [][(tty_raw /\ pending # <<>> /\ Head(pending) = 3 /\ pending' = Tail(pending))
       => exc' = "KeyboardInterrupt"]_vars

\* The last n entries of a buffer, all of them when it holds fewer, none
\* when n is zero or less.
RecentWindow(lines, n) ==
    IF n <= 0 THEN <<>>
    ELSE IF Len(lines) <= n THEN lines
    ELSE SubSeq(lines, Len(lines) - n + 1, Len(lines))

\* Whether retained is the end of all.
IsSuffix(retained, all) ==
    /\ Len(retained) <= Len(all)
    /\ \A i \in 1..Len(retained) : retained[i] = all[Len(all) - Len(retained) + i]

\* The whitespace-delimited tokens of a sequence of lines, in order.
RECURSIVE TokensOf(_)
TokensOf(lines) ==
    IF lines = <<>> THEN <<>> ELSE Split(Head(lines)) \o TokensOf(Tail(lines))

\* The pieces of s between the occurrences of " | ".
FieldsOf(s) ==
    LET n == Len(Separator)
        cuts == {i \in 1..(Len(s) - n + 1) : SubSeq(s, i, i + n - 1) = Separator}
        CutNo(k) == CHOOSE i \in cuts : Cardinality({j \in cuts : j < i}) = k - 1
        From(k) == IF k = 1 THEN 1 ELSE CutNo(k - 1) + n
        To(k) == IF k = Cardinality(cuts) + 1 THEN Len(s) ELSE CutNo(k) - 1
    IN  [k \in 1..(Cardinality(cuts) + 1) |-> SubSeq(s, From(k), To(k))]

\* Terminal heights from too short for any conversation line to a few lines.
WindowHeights == (Height - 3)..(Height + 4)

\* C11: after every append, TerminalUI's buffer holds at most RetentionCap
\* lines and LiveUI's at most LiveCap.
C11_RetentionCap ==
    /\ Len(conversation_lines) <= RetentionCap
    /\ Len(live_lines) <= LiveCap
\* An append that wrapped into several lines took the buffer over the cap.
C11_Witness ==
    /\ wrapped.called /\ Len(wrapped.lines) > 1
    /\ Len(appended) > RetentionCap
    /\ Len(conversation_lines) = RetentionKeep

\* C12: once more lines than the cap were appended, the buffer holds exactly
\* the cap's number of lines, the most recent ones in order (LiveCap for
\* LiveUI, RetentionCap for TerminalUI).
C12_KeepsMostRecentCap ==
    /\ Len(live_appended) > LiveCap => live_lines = RecentWindow(live_appended, LiveCap)
    /\ Len(appended) > RetentionCap
         => conversation_lines = RecentWindow(appended, RetentionCap)

\* C13: the retained lines of each buffer are the end of the sequence of all
\* lines ever appended to it.
C13_ContiguousSuffix ==
    /\ IsSuffix(conversation_lines, appended)
    /\ IsSuffix(live_lines, live_appended)
\* LiveUI's buffer was cut, and so was TerminalUI's.
C13_Witness ==
    /\ Len(live_appended) > LiveCap /\ Len(live_lines) = LiveKeep
    /\ Len(appended) > RetentionCap /\ Len(conversation_lines) < Len(appended)

\* C14: the lines one append produces are each at most max_width long, or
\* hold a single token; and their tokens, in order, are the tokens of the
\* prefixed text.
C14_WrapKeepsTokens ==
    wrapped.called =>
        /\ \A i \in 1..Len(wrapped.lines) :
              \/ Len(wrapped.lines[i]) <= wrapped.w - 2
              \/ Split(wrapped.lines[i]) = <<wrapped.lines[i]>>
        /\ TokensOf(wrapped.lines) = Split(Formatted(wrapped.text, wrapped.sender))
\* A text was wrapped into three lines or more, one of them a token longer
\* than max_width.
C14_Witness ==
    /\ wrapped.called
    /\ Len(wrapped.lines) >= 3
    /\ \E i \in 1..Len(wrapped.lines) : Len(wrapped.lines[i]) > wrapped.w - 2

\* C15: on a terminal of any height the conversation lines TerminalUI prints
\* are the last height - 6 lines of the buffer (all of them when it holds
\* fewer, none when height - 6 is zero or less), and LiveUI shows the last
\* LiveWindow lines.
C15_RecentWindow ==
    /\ \A h \in WindowHeights :
          PrintedLines(conversation_lines, h) = RecentWindow(conversation_lines, h - 6)
    /\ LiveDisplayLines(live_lines) = RecentWindow(live_lines, LiveWindow)
\* After the appends both buffers are longer than their windows: a window
\* of Height - 2 lines shows the last Height - 2, a terminal too short for
\* any line shows none.
C15_Witness ==
    /\ appends_left = 0
    /\ Len(conversation_lines) > Height - 2
    /\ PrintedLines(conversation_lines, Height + 4)
         = SubSeq(conversation_lines, Len(conversation_lines) - (Height - 2) + 1,
                  Len(conversation_lines))
    /\ PrintedLines(conversation_lines, Height - 1) = <<>>
    /\ Len(live_lines) > LiveWindow

\* C16: a non-forced branch lookup made less than GitTtl seconds after the
\* last check, for the path of that check and after a non-forced lookup,
\* runs no git command and returns what the previous lookup returned.
C16_CachedWithinTtl ==
    [][(/\ GetGitBranch
        /\ lookup.called /\ ~lookup.forced /\ ~lookup.raised
        /\ now - last_git_check < GitTtl
        /\ cached_git_path = cwd
        /\ ~lookup'.raised)
       => /\ lookup'.runs = 0
          /\ lookup'.value = lookup.value]_vars

C18_NeverRaises == status_out.called => ~status_out.raised

\* C19: the status string is the fields TIME, HOST, MODEL, FOLDER, BRANCH,
\* PATH in this order joined by " | ", BRANCH being there exactly when the
\* branch lookup returned a branch.
C19_FieldOrder ==
    (status_out.called /\ ~status_out.raised) =>
        LET fields == FieldsOf(status_out.value)
            labels == <<TimeLabel, HostLabel, ModelLabel, FolderLabel>>
                      \o (IF status_out.branch # None THEN <<BranchLabel>> ELSE <<>>)
                      \o <<PathLabel>>
        IN  /\ Len(fields) = Len(labels)
            /\ \A i \in 1..Len(labels) : StartsWith(fields[i], labels[i])
\* A status string made on a detached HEAD: five fields, no BRANCH.
C19_Witness ==
    /\ status_out.called /\ ~status_out.raised
    /\ env.git = "detached" /\ lookup.runs = 2
    /\ status_out.branch = None
    /\ Len(FieldsOf(status_out.value)) = 5

\* C20: for the empty partial input get_matching_commands returns every
\* command of the registry once, with its description, in declaration order.
C20_EmptyReturnsAll ==
    (matches_out.called /\ matches_out.partial = <<>>) => matches_out.result = COMMANDS
\* get_matching_commands("") was called.
C20_Witness ==
    /\ matches_out.called /\ matches_out.partial = <<>>
    /\ Len(matches_out.result) = Len(COMMANDS)
    /\ matches_out.result[1].cmd = COMMANDS[1].cmd

\* Operators used to state the properties of the command autocomplete.
HasSpace(s) == \E i \in 1..Len(s) : s[i] = 32
FoldCase(c) == IF c >= 97 /\ c <= 122 THEN c - 32 ELSE c
\* s starts with p when letter case is ignored
PrefixIgnoringCase(s, p) ==
    /\ Len(p) <= Len(s)
    /\ \A i \in 1..Len(p) : FoldCase(s[i]) = FoldCase(p[i])
NamesOf(entries) == {entries[i].cmd : i \in 1..Len(entries)}
FirstSpace(s) == CHOOSE i \in 1..Len(s) : s[i] = 32 /\ \A j \in 1..(i - 1) : s[j] # 32

\* C21: for a non-empty partial input without a space, the results of
\* get_matching_commands are exactly the registered top-level commands whose
\* name starts with the input when letter case is ignored, each once, with
\* its own description.
C21_TopLevelPrefixMatches ==
    (matches_out.called /\ matches_out.partial # <<>> /\ ~HasSpace(matches_out.partial))
    => /\ {matches_out.result[i] : i \in 1..Len(matches_out.result)}
          = {COMMANDS[i] : i \in {j \in 1..Len(COMMANDS) :
                                    PrefixIgnoringCase(COMMANDS[j].cmd, matches_out.partial)}}
       /\ \A i, j \in 1..Len(matches_out.result) :
              matches_out.result[i] = matches_out.result[j] => i = j
\* "M" was matched: memory and model.
C21_Witness ==
    /\ matches_out.called /\ matches_out.partial = <<77>>
    /\ NamesOf(matches_out.result) = {<<109, 101, 109, 111, 114, 121>>, <<109, 111, 100, 101, 108>>}

\* C22: for a partial input with a space, cut at its first space into
\* main command and subcommand part, when the main command has registered
\* subcommands the results are exactly "main sub" for every subcommand whose
\* name starts with the subcommand part.
C22_SubcommandsAtFirstSpace ==
    (matches_out.called /\ HasSpace(matches_out.partial))
    => LET k == FirstSpace(matches_out.partial)
           main == Take(matches_out.partial, k - 1)
           sub_part == Drop(matches_out.partial, k)
           known == {i \in 1..Len(SUBCOMMANDS) : SUBCOMMANDS[i].cmd = main}
       IN  \A i \in known :
               NamesOf(matches_out.result)
               = {main \o <<32>> \o SUBCOMMANDS[i].subs[j].cmd :
                     j \in {n \in 1..Len(SUBCOMMANDS[i].subs) :
                              StartsWith(SUBCOMMANDS[i].subs[n].cmd, sub_part)}}

\* C23: every command string get_matching_commands returns starts with the
\* partial input when letter case is ignored.
C23_ResultsStartWithInput ==
    matches_out.called
    => \A i \in 1..Len(matches_out.result) :
           PrefixIgnoringCase(matches_out.result[i].cmd, matches_out.partial)

\* C24: for a non-empty partial input the results are in ascending order of
\* the command string, but for a command equal to the input, which is first.
C24_ExactFirstThenAlphabetical ==
    (matches_out.called /\ matches_out.partial # <<>>)
    => /\ \A i \in 1..Len(matches_out.result) :
              matches_out.result[i].cmd = matches_out.partial => i = 1
       /\ \A i \in 1..(Len(matches_out.result) - 1) :
              \/ StrLess(matches_out.result[i].cmd, matches_out.result[i + 1].cmd)
              \/ i = 1 /\ matches_out.result[1].cmd = matches_out.partial
\* "s" was matched: search before status, which COMMANDS declares first.
C24_Witness ==
    /\ matches_out.called /\ matches_out.partial = <<115>>
    /\ Len(matches_out.result) = 2
    /\ matches_out.result[1].cmd = <<115, 101, 97, 114, 99, 104>>
    /\ matches_out.result[2].cmd = <<115, 116, 97, 116, 117, 115>>

\* C25: get_command_suggestion returns the command string of the first
\* match when there is one and the partial input itself when there is none;
\* for "mo" it returns "model".
C25_SuggestionIsFirstMatch ==
    suggestion_out.called
    => LET matches == get_matching_commands(suggestion_out.partial) IN
       /\ matches # <<>> => suggestion_out.result = matches[1].cmd
       /\ matches = <<>> => suggestion_out.result = suggestion_out.partial
       /\ suggestion_out.partial = <<109, 111>>
              => suggestion_out.result = <<109, 111, 100, 101, 108>>
\* The suggestion for "mo" was asked for.
C25_Witness ==
    /\ suggestion_out.called /\ suggestion_out.partial = <<109, 111>>
    /\ suggestion_out.result = <<109, 111, 100, 101, 108>>

\* The rows of text the overlay paints.
OverlayRows(ops) == Cardinality({i \in 1..Len(ops) : ops[i].k = "text"})

\* C26: whenever the overlay of the terminal UI is shown and more commands
\* match than its row limit, it paints the first MaxOptions matches and one
\* more row that tells how many matches are hidden.
C26_OverlayTellsHowManyMore ==
    (autocomplete_visible /\ StartsWith(input_line, <<47>>)
        /\ Len(Matches(Tail(input_line))) > MaxOptions)
    => /\ autocomplete_options = Take(Matches(Tail(input_line)), MaxOptions)
       /\ OverlayRows(draw_autocomplete(autocomplete_visible, autocomplete_options,
                                        Width, Height)) = MaxOptions + 1

C28_PrintableInsertsAtCursor ==
    [][(pc = "handle_input" /\ CanRead /\ Head(pending) >= 32 /\ Head(pending) <= 126
            /\ pending' = Tail(pending))
       => /\ Len(input_line') = Len(input_line) + 1
          /\ input_line'[cursor_pos + 1] = Head(pending)
          /\ \A i \in 1..cursor_pos : input_line'[i] = input_line[i]
          /\ \A i \in (cursor_pos + 1)..Len(input_line) : input_line'[i + 1] = input_line[i]
          /\ cursor_pos' = cursor_pos + 1
          /\ autocomplete_visible'
                 => /\ StartsWith(input_line', <<47>>)
                    /\ autocomplete_options' = Take(Matches(Tail(input_line')), MaxOptions)
          /\ ~StartsWith(input_line', <<47>>) => ~autocomplete_visible'
          /\ EndsWith(mops', draw_conversation(conversation_lines, Width, Height)
                             \o draw_autocomplete(autocomplete_visible', autocomplete_options',
                                                  Width, Height)
                             \o draw_input_area(input_line', cursor_pos', Width, Height)
                             \o draw_status_bar(Len(SampleStatus), Width, Height))]_vars
\* "m" was typed between the "a" and the "b" of the buffer.
C28_Witness ==
    /\ escSnap = [line |-> <<97, 98>>, pos |-> 1] /\ pending = <<>>
    /\ input_line = <<97, 109, 98>> /\ cursor_pos = 2

\* C29: the step that reads a backspace byte with the cursor at c > 0
\* removes the character at index c - 1 and no other and sets the cursor to
\* c - 1; with c = 0 it leaves the buffer, the cursor and the autocomplete
\* state as they were.
C29_BackspaceDeletesBeforeCursor ==
    [][(pc = "handle_input" /\ CanRead /\ Head(pending) \in {127, 8}
            /\ pending' = Tail(pending))
       => IF cursor_pos > 0
          THEN /\ Len(input_line') = Len(input_line) - 1
               /\ \A i \in 1..(cursor_pos - 1) : input_line'[i] = input_line[i]
               /\ \A i \in (cursor_pos + 1)..Len(input_line) : input_line'[i - 1] = input_line[i]
               /\ cursor_pos' = cursor_pos - 1
          ELSE /\ input_line' = input_line
               /\ cursor_pos' = cursor_pos
               /\ autocomplete_visible' = autocomplete_visible
               /\ autocomplete_options' = autocomplete_options]_vars
\* Backspace was read with the cursor between the "a" and the "b".
C29_Witness ==
    /\ escSnap = [line |-> <<97, 98>>, pos |-> 1] /\ pending = <<>> /\ escChunk = <<>>
    /\ input_line = <<98>> /\ cursor_pos = 0

\* C30: the step that reads the last byte of a Left or Right arrow moves the
\* cursor by one when that stays within [0, len(buffer)] and leaves it where
\* it was otherwise; it keeps the buffer, the autocomplete state and the
\* conversation buffer, and prints on the input row only: the input line
\* when the cursor has moved, nothing when it has not.
C30_ArrowsMoveCursorOnly ==
    [][(pc = "esc_arrow" /\ tty_raw /\ mops = <<>> /\ pending # <<>>
            /\ Head(pending) \in {67, 68} /\ pending' = Tail(pending))
       => LET target == IF Head(pending) = 68 THEN cursor_pos - 1 ELSE cursor_pos + 1 IN
          /\ cursor_pos' = IF target >= 0 /\ target <= Len(input_line)
                           THEN target ELSE cursor_pos
          /\ input_line' = input_line
          /\ autocomplete_visible' = autocomplete_visible
          /\ autocomplete_options' = autocomplete_options
          /\ conversation_lines' = conversation_lines
          /\ \A i \in 1..Len(mops') :
                 /\ mops'[i].k # "cls"
                 /\ mops'[i].k = "move" => mops'[i].a = InputRow
          /\ cursor_pos' # cursor_pos
                 => mops' = draw_input_area(input_line, cursor_pos', Width, Height)
          /\ cursor_pos' = cursor_pos => mops' = <<>>]_vars
\* A Left arrow moved the cursor back by one in a non-empty buffer.
C30_Witness ==
    /\ escChunk = LeftKey /\ pending = <<>> /\ pc = "handle_input"
    /\ input_line # <<>> /\ input_line = escSnap.line
    /\ escSnap.pos > 0 /\ cursor_pos = escSnap.pos - 1

\* C31: the step that reads a byte the input loop has no branch for (not
\* printable, Enter, backspace, ESC, Ctrl-C or Ctrl-D) leaves the buffer,
\* the cursor offset, the autocomplete state and the conversation as they
\* were, prints nothing, raises nothing and goes back to reading.
C31_OtherBytesIgnored ==
    [][(pc = "handle_input" /\ CanRead
            /\ Head(pending) \notin {3, 4, 13, 127, 8, 27}
            /\ ~(Head(pending) >= 32 /\ Head(pending) <= 126)
            /\ pending' = Tail(pending))
       => /\ input_line' = input_line
          /\ cursor_pos' = cursor_pos
          /\ autocomplete_visible' = autocomplete_visible
          /\ autocomplete_options' = autocomplete_options
          /\ conversation_lines' = conversation_lines
          /\ mops' = <<>>
          /\ exc' = exc
          /\ pc' = "handle_input"]_vars
\* A Tab was read after a character had been typed: a burst that did not
\* begin with ESC was read to its end and the line and cursor, at the end of
\* a non-empty line, are those of the moment it was typed.
C31_Witness ==
    /\ escChunk = <<>> /\ pending = <<>> /\ pc = "handle_input" /\ exc = "none"
    /\ escSnap.line # <<>> /\ escSnap.pos = Len(escSnap.line)
    /\ input_line = escSnap.line /\ cursor_pos = escSnap.pos

\* C32: after every step that changes the buffer, the options held for a
\* buffer "/" + p are the first MaxOptions of get_matching_commands(p), in
\* its order, and for a buffer that does not start with "/" the menu is
\* hidden.
C32_OverlayHoldsEngineMatches ==
    [][input_line' # input_line
       => IF StartsWith(input_line', <<47>>)
          THEN autocomplete_options'
                   = Take(get_matching_commands(Tail(input_line')), MaxOptions)
          ELSE ~autocomplete_visible']_vars

\* C33: the status row of the terminal, which the status update thread
\* erases and writes on each of its ticks, is never erased or written by a
\* print of the main thread.
C33_StatusRowHasOneWriter ==
    [][(mops # <<>> /\ mops' = Tail(mops) /\ IsContent(Head(mops)))
       => cursor[1] # StatusRow]_vars

\* The rows a painter addresses, and whether it stays within rows: it moves
\* the cursor before anything else, to these rows only, never clears the
\* screen or prints a newline, and no text is wider than the terminal.
PaintsOnly(ops, rows, w) ==
    LET kinds == {ops[i].k : i \in 1..Len(ops)}
        moved == {ops[i].a : i \in {j \in 1..Len(ops) : ops[j].k = "move"}}
        widths == {ops[i].a : i \in {j \in 1..Len(ops) : ops[j].k = "text"}}
    IN  /\ ops # <<>> => Head(ops).k = "move"
        /\ kinds \subseteq {"move", "el", "text"}
        /\ moved \subseteq rows
        /\ \A n \in widths : n <= w

InLoop == pc \in {"handle_input", "esc_next", "esc_arrow", "yielded", "invoke", "invoked", "resume"}

\* C36: once the tty is in raw mode inside the input loop it stays in raw
\* mode for as long as the loop goes on.
C36_RawThroughoutLoop ==
    [][(InLoop /\ InLoop' /\ tty_raw) => tty_raw']_vars

\* C37: once every stop() has returned (running is False, the screen is
\* cleared and the farewell printed), the status update thread makes no
\* further print.
C37_NoStatusWriteAfterStop ==
    [][(pc = "exiting" /\ ~running /\ mops = <<>>) => sops' = sops]_vars

\* C38: the menu is visible exactly when it holds options, and only while
\* the buffer starts with '/'.
C38_VisibleIffOptions ==
    /\ autocomplete_visible <=> autocomplete_options # <<>>
    /\ autocomplete_visible => StartsWith(input_line, <<47>>)
\* "/m" was typed: the menu holds memory and model.
C38_Witness ==
    /\ input_line = <<47, 109>> /\ autocomplete_visible
    /\ Len(autocomplete_options) = 2

\* C40: a submitted line that is empty after strip() never reaches
\* agent.invoke, and the caller's turn for it adds nothing to the
\* conversation but the user line start() appends when it is resumed.
C40_BlankLineSkipsBackend ==
    [][(pc \in {"yielded", "resume"} /\ StripIsEmpty(user_input))
       => /\ pc' \notin {"invoke", "invoked"}
          /\ conversation_lines' # conversation_lines
                 => /\ pc = "resume"
                    /\ conversation_lines'
                           = add_conversation_line(conversation_lines, user_input,
                                                   "user", Width)]_vars
\* A line of one space was submitted and the caller has skipped it.
C40_Witness == pc = "resume" /\ user_input = <<32>> /\ result = "none"

\* C34: whenever no thread is inside get_git_branch, the cached branch, the
\* cached path and the time of the last check are those of one and the same
\* call: the calls that last wrote the three fields had the same time, path
\* and branch.
C34_CacheWrittenByOneLookup ==
    (\A t \in Threads : lookups[t].pc = "idle")
    => /\ cache_writers.branch = cache_writers.path
       /\ cache_writers.path = cache_writers.check

\* C39: when the buffer is longer than the available width, the last print
\* of draw_input_area puts the cursor on the input row at column
\* PromptWidth + (cursor_pos - start of the slice shown) + 1, and the cursor
\* offset lies within the slice shown.
C39_CaretWithinSlice ==
    (mops # <<>> /\ Len(input_line) > Width - PromptWidth - 2)
    => LET available_width == Width - PromptWidth - 2
           slice_start == Max(0, cursor_pos - available_width + 10)
           slice_end == Min(Len(input_line), slice_start + available_width)
       IN  /\ LastOf(mops) = Op("move", InputRow, PromptWidth + (cursor_pos - slice_start) + 1)
           /\ slice_start <= cursor_pos /\ cursor_pos <= slice_end

====
